---- MODULE Spec2Model ----
(***************************************************************************)
(* A model of the spider library (src/src/spect.h, src/src/spect.cc): the  *)
(* DICOM DA / TM / DT / UTC-offset parsers, the completion and resolution  *)
(* functions that turn parsed components into Unix time, and the           *)
(* line-oriented serialization of Spect records.                           *)
(*                                                                         *)
(* A std::string / std::string_view is a sequence of one-character         *)
(* strings.  A std::optional<T> is a record [has, val].  A function with   *)
(* output arguments is an operator that takes the values the arguments     *)
(* hold before the call and returns a record with the return value and the *)
(* values they hold after it.                                              *)
(***************************************************************************)
EXTENDS Integers, Sequences, FiniteSets, TLC

VARIABLES
  pc,          \* "call" before the function runs, "done" after it returned
  fn,          \* the function under call
  v,           \* the string argument of a parser
  date,        \* DateComplete& output argument of ParseDicomDate
  date_parsed, \* DateParsed& output argument of ParseDicomDateTimeExcludingUtc
  time_parsed, \* TimeParsed& output argument
  offset,      \* std::chrono::minutes& output argument, in minutes
  ret,         \* bool returned by a parser
  date_complete, \* const DateComplete& argument of a resolver
  time_complete, \* const TimeComplete& argument of a resolver
  vdate,       \* DICOM DA string argument
  vtime,       \* DICOM TM string argument
  datetime,    \* DICOM DT string argument
  voffset,     \* UTC offset string argument (TimezoneOffsetFromUTC)
  tz,          \* const tz::time_zone* argument: a zone name or NullTz
  result,      \* the std::expected a resolver returned
  spects,      \* const std::vector<Spect>& argument of WriteSpects
  os,          \* the characters WriteSpects put on the stream
  warnings,    \* the warnings WriteSpects logged: <<record number, field>>
  spects_read, \* the std::vector<Spect> ReadSpects returned
  s_spect,     \* const Spect& s argument of a function of one record
  input_filenames, \* argument of PrepareTiaPipeline
  time_points, \* argument of SetTimePoints / PrepareTiaPipeline, in seconds
  decay_factors, \* argument of PrepareTiaPipeline
  ndebug,      \* whether the build defines NDEBUG (assert compiled out)
  functor,     \* the members of the ExpFitFunctor
  filters,     \* the TiaFilters PrepareTiaPipeline returned
  pixel_in,    \* the InPixelType the functor is applied to
  pixel_out,   \* the OutPixelType it returned
  argv,        \* char* argv[] of spider_tia; argv[i] of the code is argv[i + 1]
  args,        \* the ParsedArguments
  exit_status, \* "none" while the program runs, then the exit status
  cout,        \* what the program wrote to standard output
  cerr,        \* what the program wrote to standard error
  cin,         \* the characters on standard input
  cin_read,    \* whether standard input has been read
  tz_current,  \* the zone tz::current_zone() returns
  time_zones,  \* std::vector<const tz::time_zone*> time_zones of main
  tia_nii,     \* the file tia.nii: "absent", "present", "written" or "partial"
  image_file_writer, \* "none", or how image_file_writer->Update() ended
  administration_times, \* std::vector<sys_seconds> of main
  acquisition_times,    \* std::vector<sys_seconds> of main
  hours_since_administration \* std::vector<double> of main

parseVars == <<v, date, date_parsed, time_parsed, ret>>
resolveVars == <<date_complete, time_complete, vdate, vtime, datetime, voffset, tz, result>>
serialVars == <<spects, os, warnings, spects_read>>
spectVars == <<s_spect>>
tiaVars == <<input_filenames, time_points, decay_factors, ndebug, functor,
             filters, pixel_in, pixel_out>>
appVars == <<argv, args, exit_status, cout, cerr, cin, cin_read, tz_current,
             time_zones, tia_nii, image_file_writer, administration_times,
             acquisition_times,
             hours_since_administration>>
extVars == <<spectVars, tiaVars, appVars>>
vars == <<pc, fn, offset, parseVars, resolveVars, serialVars, extVars>>

(***************************************************************************)
(* Characters and std::from_chars                                          *)
(***************************************************************************)
Digits == {"0", "1", "2", "3", "4", "5", "6", "7", "8", "9"}

DigitVal(c) ==
  CASE c = "0" -> 0 [] c = "1" -> 1 [] c = "2" -> 2 [] c = "3" -> 3
    [] c = "4" -> 4 [] c = "5" -> 5 [] c = "6" -> 6 [] c = "7" -> 7
    [] c = "8" -> 8 [] c = "9" -> 9

Nullopt == [has |-> FALSE, val |-> 0]
Some(x) == [has |-> TRUE, val |-> x]

\* v.remove_prefix(n).  The parsers remove a prefix only from a view that
\* holds it, or return before the shorter view is read; a view of fewer
\* than n characters is modelled as becoming empty.
RemovePrefix(s, n) == SubSeq(s, n + 1, Len(s))

\* The number of consecutive decimal digits of s from position i, not
\* going past position last.
RECURSIVE DigitRun(_, _, _)
DigitRun(s, i, last) ==
  IF i > last \/ s[i] \notin Digits THEN 0 ELSE 1 + DigitRun(s, i + 1, last)

\* The value of the decimal digits s[i..j].
RECURSIVE DigitsValue(_, _, _)
DigitsValue(s, i, j) ==
  IF j < i THEN 0 ELSE 10 * DigitsValue(s, i, j - 1) + DigitVal(s[j])

\* std::from_chars(s.data(), s.data() + last, out) for int, base 10: an
\* optional '-' (never a '+', never white space) and then the longest run
\* of digits.  ptr is the number of characters consumed.  No value of at
\* most four characters overflows an int.
FromChars(s, last) ==
  LET neg == last >= 1 /\ s[1] = "-"
      start == IF neg THEN 2 ELSE 1
      n == DigitRun(s, start, last)
  IN IF n = 0
       THEN [ec |-> "invalid_argument", ptr |-> 0, out |-> 0]
       ELSE [ec |-> "ok", ptr |-> start - 1 + n,
             out |-> IF neg THEN 0 - DigitsValue(s, start, start + n - 1)
                            ELSE DigitsValue(s, start, start + n - 1)]

ParseYear(s) ==
  IF Len(s) < 4 THEN [ok |-> FALSE, out |-> 0]
  ELSE LET r == FromChars(s, 4)
       IN [ok |-> r.ec = "ok" /\ r.ptr = 4 /\ r.out >= 0, out |-> r.out]

ParseTwoDigits(s) ==
  IF Len(s) < 2 THEN [ok |-> FALSE, out |-> 0]
  ELSE LET r == FromChars(s, 2)
       IN [ok |-> r.ec = "ok" /\ r.ptr = 2, out |-> r.out]

ParseMonthOrDay(s) ==
  LET r == ParseTwoDigits(s) IN [ok |-> r.ok /\ r.out >= 0, out |-> r.out]

ParseHour(s) ==
  LET r == ParseTwoDigits(s)
  IN [ok |-> r.ok /\ r.out >= 0 /\ r.out <= 23, out |-> r.out]

ParseMinute(s) ==
  LET r == ParseTwoDigits(s)
  IN [ok |-> r.ok /\ r.out >= 0 /\ r.out <= 59, out |-> r.out]

ParseSecond(s) ==
  LET r == ParseTwoDigits(s)
  IN [ok |-> r.ok /\ r.out >= 0 /\ r.out <= 60, out |-> r.out]

(***************************************************************************)
(* The parsers.  d, t, o are the values of the output arguments before the *)
(* call.                                                                   *)
(***************************************************************************)
ParseDicomDate(s, d) ==
  IF Len(s) # 8 THEN [ret |-> FALSE, date |-> d]
  ELSE LET y == ParseYear(s)
           s1 == RemovePrefix(s, 4)
           m == ParseMonthOrDay(s1)
           s2 == RemovePrefix(s1, 2)
           dd == ParseMonthOrDay(s2)
       IN IF ~y.ok THEN [ret |-> FALSE, date |-> d]
          ELSE IF ~m.ok THEN [ret |-> FALSE, date |-> d]
          ELSE IF ~dd.ok THEN [ret |-> FALSE, date |-> d]
          ELSE [ret |-> TRUE,
                date |-> [year |-> y.out, month |-> m.out, day |-> dd.out]]

\* One optional two-character component of a TM or DT value, as each
\* `if (v.size() >= 2) { ... v.remove_prefix(2); }` block reads it:
\* bad when the parse fails, absent when fewer than two characters remain.
\* r is what the component's parser returns on s.  The view the k-th
\* component is read from is the argument without its first 4 + 2(k-1)
\* characters (2k for a TM): a view of one character returns false before
\* the next component, and an absent component leaves an empty view.
Component(s, r) ==
  IF Len(s) >= 2
    THEN [bad |-> ~r.ok, val |-> Some(r.out)]
    ELSE [bad |-> FALSE, val |-> Nullopt]

ParseDicomTimeMissingOddCheck(s, t) ==
  LET hour == ParseHour(s)
      s1 == RemovePrefix(s, 2)
      minute == Component(s1, ParseMinute(s1))
      s2 == RemovePrefix(s, 4)
      second == Component(s2, ParseSecond(s2))
      fail == [ret |-> FALSE, time |-> t]
  IN IF ~hour.ok THEN fail
     ELSE IF minute.bad THEN fail
     ELSE IF Len(s2) = 1 THEN fail
     ELSE IF second.bad THEN fail
     ELSE [ret |-> TRUE,
           time |-> [hour |-> Some(hour.out), minute |-> minute.val,
                     second |-> second.val]]

ParseDicomTime(s, t) ==
  LET hour == ParseHour(s)
      s1 == RemovePrefix(s, 2)
      minute == Component(s1, ParseMinute(s1))
      s2 == RemovePrefix(s, 4)
      second == Component(s2, ParseSecond(s2))
      fail == [ret |-> FALSE, time |-> t]
  IN IF ~hour.ok THEN fail
     ELSE IF Len(s1) = 1 THEN fail
     ELSE IF minute.bad THEN fail
     ELSE IF Len(s2) = 1 THEN fail
     ELSE IF second.bad THEN fail
     ELSE [ret |-> TRUE,
           time |-> [hour |-> Some(hour.out), minute |-> minute.val,
                     second |-> second.val]]

\* A variant that stores the date as soon as the date components are
\* parsed, before the time components are looked at.
ParseDicomDateTimeExcludingUtcEarlyStore(s, d, t) ==
  LET year == ParseYear(s)
      s1 == RemovePrefix(s, 4)
      month == Component(s1, ParseMonthOrDay(s1))
      s2 == RemovePrefix(s, 6)
      day == Component(s2, ParseMonthOrDay(s2))
      s3 == RemovePrefix(s, 8)
      hour == Component(s3, ParseHour(s3))
      s4 == RemovePrefix(s, 10)
      minute == Component(s4, ParseMinute(s4))
      s5 == RemovePrefix(s, 12)
      second == Component(s5, ParseSecond(s5))
      fail == [ret |-> FALSE, date |-> d, time |-> t]
      stored == [year |-> year.out, month |-> month.val, day |-> day.val]
      late == [ret |-> FALSE, date |-> stored, time |-> t]
  IN IF ~year.ok THEN fail
     ELSE IF Len(s1) = 1 THEN fail
     ELSE IF month.bad THEN fail
     ELSE IF Len(s2) = 1 THEN fail
     ELSE IF day.bad THEN fail
     ELSE IF Len(s3) = 1 THEN late
     ELSE IF hour.bad THEN late
     ELSE IF Len(s4) = 1 THEN late
     ELSE IF minute.bad THEN late
     ELSE IF Len(s5) = 1 THEN late
     ELSE IF second.bad THEN late
     ELSE [ret |-> TRUE, date |-> stored,
           time |-> [hour |-> hour.val, minute |-> minute.val,
                     second |-> second.val]]

ParseDicomDateTimeExcludingUtc(s, d, t) ==
  LET year == ParseYear(s)
      s1 == RemovePrefix(s, 4)
      month == Component(s1, ParseMonthOrDay(s1))
      s2 == RemovePrefix(s, 6)
      day == Component(s2, ParseMonthOrDay(s2))
      s3 == RemovePrefix(s, 8)
      hour == Component(s3, ParseHour(s3))
      s4 == RemovePrefix(s, 10)
      minute == Component(s4, ParseMinute(s4))
      s5 == RemovePrefix(s, 12)
      second == Component(s5, ParseSecond(s5))
      fail == [ret |-> FALSE, date |-> d, time |-> t]
  IN IF ~year.ok THEN fail
     ELSE IF Len(s1) = 1 THEN fail
     ELSE IF month.bad THEN fail
     ELSE IF Len(s2) = 1 THEN fail
     ELSE IF day.bad THEN fail
     ELSE IF Len(s3) = 1 THEN fail
     ELSE IF hour.bad THEN fail
     ELSE IF Len(s4) = 1 THEN fail
     ELSE IF minute.bad THEN fail
     ELSE IF Len(s5) = 1 THEN fail
     ELSE IF second.bad THEN fail
     ELSE [ret |-> TRUE,
           date |-> [year |-> year.out, month |-> month.val, day |-> day.val],
           time |-> [hour |-> hour.val, minute |-> minute.val,
                     second |-> second.val]]

ParseDicomUtcOffset(s, o) ==
  IF Len(s) < 5 THEN [ret |-> FALSE, offset |-> o]
  ELSE LET sign == s[1]
           s1 == RemovePrefix(s, 1)
           hour == ParseHour(s1)
           s2 == RemovePrefix(s1, 2)
           minute == ParseMinute(s2)
           mag == hour.out * 60 + minute.out
           off == IF sign = "-" THEN 0 - mag ELSE mag
           fail == [ret |-> FALSE, offset |-> o]
       IN IF sign # "+" /\ sign # "-" THEN fail
          ELSE IF ~hour.ok THEN fail
          ELSE IF ~minute.ok THEN fail
          ELSE IF sign = "-" /\ off = 0 THEN fail
          ELSE IF off < (0 - 12) * 60 \/ off > 14 * 60 THEN fail
          ELSE [ret |-> TRUE, offset |-> off]

(***************************************************************************)
(* Inputs of the parsers                                                   *)
(***************************************************************************)
\* Every string over alphabet A of at most n characters.
Strings(A, n) == UNION {[1..k -> A] : k \in 0..n}

MaxDateLen == 9
MaxTimeLen == 7
MaxOffsetLen == 5

DateAlphabet == {"0", "1", "-"}
TimeAlphabet == {"0", "6", "-"}
OffsetAlphabet == {"+", "-", "0", "1", "6"}

DateExamples == {<<"0", "0", "3", "1", "0", "8", "2", "2">>, <<"1", "9", "9", "3", "0", "8", "2", "2">>, <<"2", "0", "2", "5", "0", "1", "0", "2">>, <<"x", "0", "0", "0", "0", "0", "0", "0">>, <<"-", "0", "0", "1", "0", "1", "0", "1">>, <<"2", "0", "2", "5", "-", "1", "0", "2">>, <<"+", "0", "0", "1", "0", "1", "0", "1">>, <<" ", "0", "0", "1", "0", "1", "0", "1">>, <<"2", "0", "2", "5", "x", "1", "0", "2">>, <<"2", "0", "2", "5", "0", "1", " ", "2">>}
TimeExamples == {<<"0", "7">>, <<"1", "0", "0", "9">>, <<"1", "5", "1", "3", "0", "5">>, <<"0", "3", "0", "9", "1", "4", ".", "0", "1", "0", "3">>, <<"1", "2", "2", "6", "0", "1", ".", "0", "0", "0", "0", "0", "0", " ">>, <<"2", "3", "5", "9", "6", "0">>, <<"2", "4", "0", "0", "0", "0">>, <<"0", "x">>, <<"0", "0", "5">>, <<"0", "0", "0", "0", "0">>, <<".", "5">>}
OffsetExamples == {<<"+", "0", "9", "3", "0">>, <<"-", "0", "5", "0", "0">>, <<"-", "0", "0", "0", "0">>, <<"+", "1", "5", "0", "0">>, <<"+", "1", "4", "0", "0">>, <<"-", "1", "2", "0", "0">>, <<"+", "1", "4", "0", "1">>, <<"-", "1", "2", "0", "1">>, <<"+", "0", "3", "3", "0">>, <<"+", "2", "3", "5", "9">>, <<" ", "0", "9", "3", "0">>, <<"0", "9", "3", "0">>, <<"+", "0", "9", ":", "3", "0">>, <<"+", "0", "9", "3", "0", " ">>, <<"+", "0", "9", "x", "0">>}

DateInputs == Strings(DateAlphabet, MaxDateLen) \cup DateExamples
TimeInputs == Strings(TimeAlphabet, MaxTimeLen) \cup TimeExamples
OffsetInputs == Strings(OffsetAlphabet, MaxOffsetLen) \cup OffsetExamples

\* DT values: a year, then any number of the components month, day, hour,
\* minute, second in this order, then a tail (nothing, an odd character, a
\* fraction, a UTC-offset suffix).
DtYears == {<<"2", "0", "2", "5">>, <<"-", "0", "0", "0">>, <<"2", "0", "-", "5">>}
DtComponents ==
  << {<<"0", "1">>, <<"1", "3">>, <<"-", "0">>, <<"+", "1">>},
     {<<"0", "2">>, <<"-", "1">>, <<"3", "x">>},
     {<<"0", "0">>, <<"2", "3">>, <<"2", "4">>, <<"-", "0">>},
     {<<"3", "0">>, <<"6", "0">>, <<"-", "0">>},
     {<<"5", "9">>, <<"6", "0">>, <<"6", "1">>, <<"-", "0">>} >>
DtTails == {<<>>, <<"5">>, <<".", "5">>, <<"+", "0", "9", "3", "0">>, <<"-", "0", "5", "0", "0">>, <<"-", "0", "0", "0", "0">>, <<"+", "1", "5", "0", "0">>, <<".", "5", "-", "0", "5", "0", "0">>}

RECURSIVE DtBodies(_)
DtBodies(k) ==
  IF k = 0 THEN DtYears
  ELSE LET shorter == DtBodies(k - 1)
           full == {b \in shorter : Len(b) = 4 + 2 * (k - 1)}
       IN shorter \cup {b \o c : b \in full, c \in DtComponents[k]}

DtInputs == {b \o t : b \in DtBodies(Len(DtComponents)), t \in DtTails}

\* The values the output arguments hold before the call.
PriorDate == [year |-> 1999, month |-> 12, day |-> 31]
PriorDateParsed == [year |-> 1999, month |-> Some(12), day |-> Nullopt]
PriorTimeParsed == [hour |-> Some(11), minute |-> Nullopt, second |-> Some(58)]
PriorOffset == 77

NullTz == "nullptr"
NoString == <<>>
NoDate == [year |-> 0, month |-> 0, day |-> 0]
NoTime == [hour |-> 0, minute |-> 0, second |-> 0]
NoResult == [has_value |-> FALSE, value |-> 0, error |-> "none"]

\* The arguments of the resolvers while a parser is under call.
ResolveUnused ==
  /\ date_complete = NoDate
  /\ time_complete = NoTime
  /\ vdate = NoString
  /\ vtime = NoString
  /\ datetime = NoString
  /\ voffset = NoString
  /\ tz = NullTz
  /\ result = NoResult

\* The record argument while a function that takes none is under call.
SpectUnused == s_spect = <<>>

\* The kernel and the pipeline while a function of the library is under
\* call.
TiaUnused ==
  /\ input_filenames = <<>>
  /\ time_points = <<>>
  /\ decay_factors = <<>>
  /\ ndebug = FALSE
  /\ functor = <<>>
  /\ filters = <<>>
  /\ pixel_in = <<>>
  /\ pixel_out = <<>>

\* The program state while a function of the library is under call.
AppUnused ==
  /\ argv = <<>>
  /\ args = <<>>
  /\ exit_status = "none"
  /\ cout = <<>>
  /\ cerr = <<>>
  /\ cin = <<>>
  /\ cin_read = FALSE
  /\ tz_current = "nullptr"
  /\ time_zones = <<>>
  /\ tia_nii = "absent"
  /\ image_file_writer = "none"
  /\ administration_times = <<>>
  /\ acquisition_times = <<>>
  /\ hours_since_administration = <<>>

ExtUnused == SpectUnused /\ TiaUnused /\ AppUnused

\* The serialization state while a parser or a resolver is under call.
SerialUnused ==
  /\ spects = <<>>
  /\ os = NoString
  /\ warnings = <<>>
  /\ spects_read = <<>>

(***************************************************************************)
(* The parsers as operations: one call of one parser on one string.        *)
(***************************************************************************)
InitParse ==
  /\ pc = "call"
  /\ \/ fn = "ParseDicomDate" /\ v \in DateInputs
     \/ fn = "ParseDicomTime" /\ v \in TimeInputs
     \/ fn = "ParseDicomDateTimeExcludingUtc" /\ v \in DtInputs
     \/ fn = "ParseDicomUtcOffset" /\ v \in OffsetInputs
  /\ date = PriorDate
  /\ date_parsed = PriorDateParsed
  /\ time_parsed = PriorTimeParsed
  /\ offset = PriorOffset
  /\ ret = FALSE
  /\ ResolveUnused
  /\ SerialUnused
  /\ ExtUnused

CallParseDicomDate ==
  /\ pc = "call"
  /\ fn = "ParseDicomDate"
  /\ LET r == ParseDicomDate(v, date)
     IN /\ ret' = r.ret
        /\ date' = r.date
  /\ pc' = "done"
  /\ UNCHANGED <<fn, resolveVars, serialVars, extVars, v, date_parsed, time_parsed, offset>>

CallParseDicomTime ==
  /\ pc = "call"
  /\ fn = "ParseDicomTime"
  /\ LET r == ParseDicomTime(v, time_parsed)
     IN /\ ret' = r.ret
        /\ time_parsed' = r.time
  /\ pc' = "done"
  /\ UNCHANGED <<fn, resolveVars, serialVars, extVars, v, date, date_parsed, offset>>

CallParseDicomDateTimeExcludingUtc ==
  /\ pc = "call"
  /\ fn = "ParseDicomDateTimeExcludingUtc"
  /\ LET r == ParseDicomDateTimeExcludingUtc(v, date_parsed, time_parsed)
     IN /\ ret' = r.ret
        /\ date_parsed' = r.date
        /\ time_parsed' = r.time
  /\ pc' = "done"
  /\ UNCHANGED <<fn, resolveVars, serialVars, extVars, v, date, offset>>

CallParseDicomUtcOffset ==
  /\ pc = "call"
  /\ fn = "ParseDicomUtcOffset"
  /\ LET r == ParseDicomUtcOffset(v, offset)
     IN /\ ret' = r.ret
        /\ offset' = r.offset
  /\ pc' = "done"
  /\ UNCHANGED <<fn, resolveVars, serialVars, extVars, v, date, date_parsed, time_parsed>>

NextParse ==
  \/ CallParseDicomDate
  \/ CallParseDicomTime
  \/ CallParseDicomDateTimeExcludingUtc
  \/ CallParseDicomUtcOffset

SpecParse == InitParse /\ [][NextParse]_vars

(***************************************************************************)
(* Properties of the parsers                                               *)
(***************************************************************************)
AllDigits(s, i, j) == \A k \in i..j : s[k] \in Digits

\* "{+,-}HHMM": a sign, two decimal digits in 0..23, two in 0..59.
IsOffsetText(s) ==
  /\ Len(s) = 5
  /\ s[1] \in {"+", "-"}
  /\ AllDigits(s, 2, 5)
  /\ DigitsValue(s, 2, 3) <= 23
  /\ DigitsValue(s, 4, 5) <= 59

OffsetTextValue(s) ==
  LET mag == 60 * DigitsValue(s, 2, 3) + DigitsValue(s, 4, 5)
  IN IF s[1] = "-" THEN 0 - mag ELSE mag

\* A UTC-offset suffix a DT value may carry.
IsValidSuffix(s) ==
  /\ IsOffsetText(s)
  /\ ~(s[1] = "-" /\ OffsetTextValue(s) = 0)
  /\ OffsetTextValue(s) >= 0 - 720
  /\ OffsetTextValue(s) <= 840

\* YYYY[MM[DD[HH[MM[SS]]]]], each component decimal and in range.
IsDtComponents(s) ==
  /\ Len(s) \in {4, 6, 8, 10, 12, 14}
  /\ AllDigits(s, 1, Len(s))
  /\ Len(s) >= 6 => DigitsValue(s, 5, 6) \in 1..12
  /\ Len(s) >= 8 => DigitsValue(s, 7, 8) \in 1..31
  /\ Len(s) >= 10 => DigitsValue(s, 9, 10) \in 0..23
  /\ Len(s) >= 12 => DigitsValue(s, 11, 12) \in 0..59
  /\ Len(s) >= 14 => DigitsValue(s, 13, 14) \in 0..60

\* The component of s at characters i..i+1, absent when s is shorter.
SuppliedComponent(s, i) ==
  IF Len(s) >= i + 1 THEN Some(DigitsValue(s, i, i + 1)) ELSE Nullopt

\* C6: ParseDicomDateTimeExcludingUtc ignores a UTC-offset suffix: for every
\* split of the argument into components p (YYYY[MM[DD[HH[MM[SS]]]]], each
\* in range) and a valid suffix u, the call succeeds and yields exactly the
\* components p supplies, as parsing p alone does, every other one absent.
C6_SuffixIgnored ==
  (pc = "done" /\ fn = "ParseDicomDateTimeExcludingUtc") =>
    \A k \in 0..Len(v) :
      LET p == SubSeq(v, 1, k)
          u == SubSeq(v, k + 1, Len(v))
          alone == ParseDicomDateTimeExcludingUtc(p, PriorDateParsed,
                                                  PriorTimeParsed)
      IN (IsDtComponents(p) /\ IsValidSuffix(u)) =>
           /\ ret
           /\ alone.ret
           /\ date_parsed = alone.date
           /\ time_parsed = alone.time
           /\ date_parsed = [year |-> DigitsValue(p, 1, 4),
                             month |-> SuppliedComponent(p, 5),
                             day |-> SuppliedComponent(p, 7)]
           /\ time_parsed = [hour |-> SuppliedComponent(p, 9),
                             minute |-> SuppliedComponent(p, 11),
                             second |-> SuppliedComponent(p, 13)]

\* C7: ParseDicomUtcOffset succeeds only on a sign followed by two decimal
\* digits HH in 0..23 and two decimal digits MM in 0..59; the offset is then
\* +(60*HH+MM) or -(60*HH+MM) minutes by the sign and lies in -720..840;
\* "-0000" fails.
C7_OffsetOnlyFromSignHHMM ==
  (pc = "done" /\ fn = "ParseDicomUtcOffset" /\ ret) =>
    /\ IsOffsetText(v)
    /\ offset = OffsetTextValue(v)
    /\ v # <<"-", "0", "0", "0", "0">>
    /\ offset >= 0 - 720
    /\ offset <= 840

\* C8: ParseDicomTime fails on a string of 0, 1, 3 or 5 characters; on
\* success the hour is present and in 0..23, the minute is present exactly
\* when the string has at least 4 characters and is then in 0..59, the
\* second exactly when it has at least 6 and is then in 0..60; characters
\* after the sixth change neither the return value nor the time.
C8_TimeLengthDispatch ==
  (pc = "done" /\ fn = "ParseDicomTime") =>
    /\ Len(v) \in {0, 1, 3, 5} => ~ret
    /\ ret =>
         /\ time_parsed.hour.has /\ time_parsed.hour.val \in 0..23
         /\ time_parsed.minute.has <=> Len(v) >= 4
         /\ time_parsed.minute.has => time_parsed.minute.val \in 0..59
         /\ time_parsed.second.has <=> Len(v) >= 6
         /\ time_parsed.second.has => time_parsed.second.val \in 0..60
    /\ Len(v) > 6 =>
         LET six == ParseDicomTime(SubSeq(v, 1, 6), PriorTimeParsed)
         IN ret = six.ret /\ time_parsed = six.time

C8_Witness ==
  /\ pc = "done"
  /\ fn = "ParseDicomTime"
  /\ ret
  /\ Len(v) > 6
  /\ time_parsed.second = Some(60)

\* C9: ParseDicomDate succeeds if and only if the string has exactly 8
\* characters, all decimal digits; the year, month and day are then the
\* numeric values of characters 1-4, 5-6 and 7-8.
C9_DateIffEightDigits ==
  (pc = "done" /\ fn = "ParseDicomDate") =>
    /\ ret <=> (Len(v) = 8 /\ AllDigits(v, 1, 8))
    /\ (ret /\ Len(v) = 8 /\ AllDigits(v, 1, 8)) =>
         date = [year |-> DigitsValue(v, 1, 4),
                 month |-> DigitsValue(v, 5, 6),
                 day |-> DigitsValue(v, 7, 8)]

\* C10: a parser that returns false leaves every output argument (date,
\* time, offset) with the value it held before the call.
C10_FailureLeavesOutputs ==
  [][(pc' = "done" /\ ~ret') =>
       /\ date' = date
       /\ date_parsed' = date_parsed
       /\ time_parsed' = time_parsed
       /\ offset' = offset]_vars

\* A failure found after the date components of a DT value were parsed.
C10_Witness ==
  /\ pc = "done"
  /\ fn = "ParseDicomDateTimeExcludingUtc"
  /\ ~ret
  /\ Len(v) >= 10
  /\ ParseDicomDateTimeExcludingUtc(SubSeq(v, 1, 8), PriorDateParsed,
                                    PriorTimeParsed).ret

(***************************************************************************)
(* Completion and resolution: std::expected, the calendar and the zones    *)
(***************************************************************************)
Ok(x) == [has_value |-> TRUE, value |-> x, error |-> "none"]
Unexpected(e) == [has_value |-> FALSE, value |-> 0, error |-> e]

MakeDateComplete(dp) ==
  IF ~dp.month.has \/ ~dp.day.has THEN Unexpected("kIncompleteDate")
  ELSE Ok([year |-> dp.year, month |-> dp.month.val, day |-> dp.day.val])

MakeTimeComplete(tp) ==
  IF ~tp.hour.has \/ ~tp.minute.has \/ ~tp.second.has
    THEN Unexpected("kIncompleteTime")
    ELSE Ok([hour |-> tp.hour.val, minute |-> tp.minute.val,
             second |-> tp.second.val])

IsLeap(y) == y % 4 = 0 /\ (y % 100 # 0 \/ y % 400 = 0)

LastDayOfMonth(y, m) ==
  CASE m = 2 -> IF IsLeap(y) THEN 29 ELSE 28
    [] m \in {4, 6, 9, 11} -> 30
    [] OTHER -> 31

\* tz::month{ static_cast<unsigned>(x) } and tz::day{ ... } keep the value
\* in an unsigned char.
AsUnsignedChar(x) == x % 256

\* year_month_day::ok() of the date built from dc.  A four-digit year is
\* always a valid tz::year.
YmdOk(dc) ==
  /\ AsUnsignedChar(dc.month) \in 1..12
  /\ AsUnsignedChar(dc.day) >= 1
  /\ AsUnsignedChar(dc.day) <= LastDayOfMonth(dc.year, AsUnsignedChar(dc.month))

\* local_days{ ymd }: days since 1970-01-01 of a valid civil date.
DaysFromCivil(y, m, dd) ==
  LET yy == IF m <= 2 THEN y - 1 ELSE y
      era == yy \div 400
      yoe == yy - era * 400
      mp == IF m > 2 THEN m - 3 ELSE m + 9
      doy == (153 * mp + 2) \div 5 + dd - 1
      doe == yoe * 365 + yoe \div 4 - yoe \div 100 + doy
  IN era * 146097 + doe - 719468

\* local_days{ ymd } + hours{ t.hour } + minutes{ t.minute }
\* + seconds{ t.second }, in seconds.
LocalSeconds(dc, tc) ==
  DaysFromCivil(dc.year, AsUnsignedChar(dc.month), AsUnsignedChar(dc.day))
    * 86400 + tc.hour * 3600 + tc.minute * 60 + tc.second

\* The zones the tests locate, as the time-zone database gives them for
\* 2024 and 2025: the UTC offset in seconds before the first transition and
\* the offset from each transition instant on.
Zones == {"Australia/Adelaide", "America/Vancouver"}

ZoneData(z) ==
  CASE z = "Australia/Adelaide" ->
         [initial |-> 37800,
          transitions |-> << [at |-> 1712421000, off |-> 34200],
                             [at |-> 1728145800, off |-> 37800],
                             [at |-> 1743870600, off |-> 34200],
                             [at |-> 1759595400, off |-> 37800] >>]
    [] z = "America/Vancouver" ->
         [initial |-> 0 - 28800,
          transitions |-> << [at |-> 1710064800, off |-> 0 - 25200],
                             [at |-> 1730624400, off |-> 0 - 28800],
                             [at |-> 1741514400, off |-> 0 - 25200],
                             [at |-> 1762074000, off |-> 0 - 28800] >>]

\* time_zone::get_info(sys_time).offset
OffsetAt(z, sys) ==
  LET trs == ZoneData(z).transitions
      past == {i \in DOMAIN trs : trs[i].at <= sys}
  IN IF past = {} THEN ZoneData(z).initial
     ELSE trs[CHOOSE i \in past : \A j \in past : j <= i].off

ZoneOffsets(z) ==
  {ZoneData(z).initial}
    \cup {ZoneData(z).transitions[i].off : i \in DOMAIN ZoneData(z).transitions}

\* time_zone::get_info(local_time): the instants whose local time in z is
\* lt.  None: nonexistent; one: unique; two: ambiguous.
SysCandidates(z, lt) ==
  {lt - o : o \in {x \in ZoneOffsets(z) : OffsetAt(z, lt - x) = x}}

Earliest(S) == CHOOSE x \in S : \A y \in S : x <= y
Latest(S) == CHOOSE x \in S : \A y \in S : y <= x

\* A variant that resolves an ambiguous local time to the later instant.
MakeZonedTimeLatest(dc, tc, z) ==
  IF ~YmdOk(dc) THEN Unexpected("kInvalidDate")
  ELSE IF Cardinality(SysCandidates(z, LocalSeconds(dc, tc))) = 1
    THEN Ok(Earliest(SysCandidates(z, LocalSeconds(dc, tc))))
  ELSE IF Cardinality(SysCandidates(z, LocalSeconds(dc, tc))) > 1
    THEN Ok(Latest(SysCandidates(z, LocalSeconds(dc, tc))))
  ELSE Unexpected("kNonexistentLocalTime")

\* The value is the sys time of the zoned time (get_sys_time()); its zone
\* is z.  zoned_time{ &tz, lt } returns on a unique local time and throws
\* ambiguous_local_time or nonexistent_local_time otherwise; the first is
\* caught and resolved with choose::earliest, the second is the error.
MakeZonedTime(dc, tc, z) ==
  IF ~YmdOk(dc) THEN Unexpected("kInvalidDate")
  ELSE IF Cardinality(SysCandidates(z, LocalSeconds(dc, tc))) = 1
    THEN Ok(Earliest(SysCandidates(z, LocalSeconds(dc, tc))))
  ELSE IF Cardinality(SysCandidates(z, LocalSeconds(dc, tc))) > 1
    THEN Ok(Earliest(SysCandidates(z, LocalSeconds(dc, tc))))
  ELSE Unexpected("kNonexistentLocalTime")

\* A variant that adds the offset to the local time.
MakeSysTimeFromOffsetAdded(dc, tc, off) ==
  IF ~YmdOk(dc) THEN Unexpected("kInvalidDate")
  ELSE Ok(LocalSeconds(dc, tc) + 60 * off)

\* off is in minutes.
MakeSysTimeFromOffset(dc, tc, off) ==
  IF ~YmdOk(dc) THEN Unexpected("kInvalidDate")
  ELSE Ok(LocalSeconds(dc, tc) - 60 * off)

\* A variant that prefers the time zone, when given, to the offset string.
MakeSysTimeFromOffsetOrTimeZoneZoneFirst(dc, tc, vo, z) ==
  IF z # NullTz THEN MakeZonedTime(dc, tc, z)
  ELSE IF Len(vo) = 0 THEN Unexpected("kMissingTimeZone")
  ELSE IF ~ParseDicomUtcOffset(vo, 0).ret THEN Unexpected("kFailedUtcOffset")
  ELSE MakeSysTimeFromOffset(dc, tc, ParseDicomUtcOffset(vo, 0).offset)

MakeSysTimeFromOffsetOrTimeZone(dc, tc, vo, z) ==
  IF Len(vo) # 0
    THEN IF ~ParseDicomUtcOffset(vo, 0).ret
           THEN Unexpected("kFailedUtcOffset")
           ELSE MakeSysTimeFromOffset(dc, tc, ParseDicomUtcOffset(vo, 0).offset)
  ELSE IF z = NullTz THEN Unexpected("kMissingTimeZone")
  ELSE MakeZonedTime(dc, tc, z)

\* `TimeParsed time_parsed;` and `DateParsed date_parsed;` as the resolvers
\* declare them; the year and a DateComplete are left uninitialized and are
\* read only after a parser has stored them.
DefaultTimeParsed == [hour |-> Some(0), minute |-> Some(0), second |-> Some(0)]
DefaultDateParsed == [year |-> 0, month |-> Nullopt, day |-> Nullopt]

\* A variant that checks the time string before the date string.
ResolveParsedTimeFirst(pd, pt, vo, z) ==
  IF ~pt.ret THEN Unexpected("kFailedTime")
  ELSE IF ~pd.ret THEN Unexpected("kFailedDate")
  ELSE IF ~MakeTimeComplete(pt.time).has_value
    THEN Unexpected(MakeTimeComplete(pt.time).error)
  ELSE MakeSysTimeFromOffsetOrTimeZone(
         pd.date, MakeTimeComplete(pt.time).value, vo, z)

\* MakeSysTimeFromDicomDateAndTime, pd and pt being what ParseDicomDate
\* and ParseDicomTime return and store for its arguments.
ResolveParsedDateAndTime(pd, pt, vo, z) ==
  IF ~pd.ret THEN Unexpected("kFailedDate")
  ELSE IF ~pt.ret THEN Unexpected("kFailedTime")
  ELSE IF ~MakeTimeComplete(pt.time).has_value
    THEN Unexpected(MakeTimeComplete(pt.time).error)
  ELSE MakeSysTimeFromOffsetOrTimeZone(
         pd.date, MakeTimeComplete(pt.time).value, vo, z)

MakeSysTimeFromDicomDateAndTime(vd, vt, vo, z) ==
  CHOOSE r \in {ResolveParsedDateAndTime(pd, pt, vo, z) :
                  pd \in {ParseDicomDate(vd, NoDate)},
                  pt \in {ParseDicomTime(vt, DefaultTimeParsed)}} : TRUE

\* datetime.find_first_of(C): the first position holding a character of C,
\* 0 for npos.
FindFirstOf(s, C) ==
  IF \E i \in 1..Len(s) : s[i] \in C
    THEN CHOOSE i \in 1..Len(s) :
           s[i] \in C /\ \A j \in 1..(i - 1) : s[j] \notin C
    ELSE 0

\* A variant in which a non-empty separate offset wins over the suffix.
ResolveDateTimeSeparateFirst(dt, dc, tc, vo, z) ==
  IF Len(vo) # 0 THEN MakeSysTimeFromOffsetOrTimeZone(dc, tc, vo, z)
  ELSE IF FindFirstOf(dt, {"+", "-"}) # 0
    THEN IF ~ParseDicomUtcOffset(
               SubSeq(dt, FindFirstOf(dt, {"+", "-"}), Len(dt)), 0).ret
           THEN Unexpected("kFailedUtcOffsetInDateTime")
           ELSE MakeSysTimeFromOffset(dc, tc,
                  ParseDicomUtcOffset(
                    SubSeq(dt, FindFirstOf(dt, {"+", "-"}), Len(dt)), 0).offset)
    ELSE MakeSysTimeFromOffsetOrTimeZone(dc, tc, vo, z)

\* The part of MakeSysTimeFromDicomDateTime after the DT value was parsed
\* and completed to dc and tc.
ResolveDateTime(dt, dc, tc, vo, z) ==
  IF FindFirstOf(dt, {"+", "-"}) # 0
    THEN IF ~ParseDicomUtcOffset(
               SubSeq(dt, FindFirstOf(dt, {"+", "-"}), Len(dt)), 0).ret
           THEN Unexpected("kFailedUtcOffsetInDateTime")
           ELSE MakeSysTimeFromOffset(dc, tc,
                  ParseDicomUtcOffset(
                    SubSeq(dt, FindFirstOf(dt, {"+", "-"}), Len(dt)), 0).offset)
    ELSE MakeSysTimeFromOffsetOrTimeZone(dc, tc, vo, z)

\* What ParseDicomDateTimeExcludingUtc stores for dt in the resolver.
ParsedDateTime(dt) ==
  ParseDicomDateTimeExcludingUtc(dt, DefaultDateParsed, DefaultTimeParsed)

\* MakeSysTimeFromDicomDateTime, p being what
\* ParseDicomDateTimeExcludingUtc returns and stores for dt.
ResolveParsedDateTime(dt, p, vo, z) ==
  IF ~p.ret THEN Unexpected("kFailedDateTimeExcludingUtcOffset")
  ELSE IF ~MakeDateComplete(p.date).has_value
    THEN Unexpected(MakeDateComplete(p.date).error)
  ELSE IF ~MakeTimeComplete(p.time).has_value
    THEN Unexpected(MakeTimeComplete(p.time).error)
  ELSE ResolveDateTime(dt, MakeDateComplete(p.date).value,
                       MakeTimeComplete(p.time).value, vo, z)

MakeSysTimeFromDicomDateTime(dt, vo, z) ==
  CHOOSE r \in {ResolveParsedDateTime(dt, p, vo, z) :
                  p \in {ParsedDateTime(dt)}} : TRUE

(***************************************************************************)
(* Inputs of the resolvers.  Dates are in 2024 and 2025, the years the     *)
(* zones are given for; months and days are values two digits can hold.    *)
(***************************************************************************)
ResolveDates ==
  { [year |-> 2025, month |-> 1, day |-> 2],
    [year |-> 2025, month |-> 4, day |-> 6],
    [year |-> 2025, month |-> 10, day |-> 5],
    [year |-> 2025, month |-> 3, day |-> 9],
    [year |-> 2025, month |-> 11, day |-> 2],
    [year |-> 2024, month |-> 4, day |-> 7],
    [year |-> 2024, month |-> 10, day |-> 6],
    [year |-> 2024, month |-> 2, day |-> 29],
    [year |-> 2024, month |-> 12, day |-> 31],
    [year |-> 2025, month |-> 2, day |-> 29],
    [year |-> 2025, month |-> 13, day |-> 1],
    [year |-> 2025, month |-> 0, day |-> 10],
    [year |-> 2025, month |-> 4, day |-> 31],
    [year |-> 2025, month |-> 1, day |-> 0],
    [year |-> 2025, month |-> 99, day |-> 99] }

ResolveTimes ==
  { [hour |-> 0, minute |-> 0, second |-> 0],
    [hour |-> 1, minute |-> 30, second |-> 0],
    [hour |-> 1, minute |-> 59, second |-> 59],
    [hour |-> 2, minute |-> 0, second |-> 0],
    [hour |-> 2, minute |-> 45, second |-> 0],
    [hour |-> 2, minute |-> 59, second |-> 59],
    [hour |-> 3, minute |-> 0, second |-> 0],
    [hour |-> 15, minute |-> 23, second |-> 12],
    [hour |-> 23, minute |-> 59, second |-> 60] }

ResolveOffsets == {570, 0 - 570, 0, 0 - 300, 840, 0 - 720}

ResolveVoffsets ==
  { <<>>,
    <<"+", "0", "9", "3", "0">>,
    <<"-", "0", "9", "3", "0">>,
    <<"-", "0", "5", "0", "0">>,
    <<"-", "0", "0", "0", "0">>,
    <<"+", "1", "5", "0", "0">>,
    <<"0", "9", "3", "0">>,
    <<"+", "0", "9", "3", "0", " ">> }

TzArgs == {NullTz} \cup Zones

ResolveVdates ==
  { <<"2", "0", "2", "5", "0", "1", "0", "2">>,
    <<"2", "0", "2", "5", "0", "4", "0", "6">>,
    <<"2", "0", "2", "5", "1", "0", "0", "5">>,
    <<"2", "0", "2", "5", "0", "3", "0", "9">>,
    <<"2", "0", "2", "4", "1", "2", "3", "1">>,
    <<"2", "0", "2", "5", "0", "2", "2", "9">>,
    <<"2", "0", "2", "5", "1", "3", "0", "1">>,
    <<"2", "0", "2", "5", "0", "1", "0">>,
    <<>>,
    <<"2", "0", "2", "5", "-", "0", "-", "0">>,
    <<"2", "0", "2", "5", "x", "1", "0", "2">> }

ResolveVtimes ==
  { <<"0", "0", "0", "0", "0", "0">>,
    <<"0", "2", "4", "5", "0", "0">>,
    <<"0", "2", "4", "5", "0", "0", ".", "5">>,
    <<"2", "3", "5", "9", "6", "0">>,
    <<"1", "5", "2", "3", "1", "2">>,
    <<"0", "2">>,
    <<"0", "2", "4", "5">>,
    <<>>,
    <<"0", "2", "4", "5", "0">>,
    <<"2", "4", "6", "0", "0", "0">>,
    <<"0", "x", "4", "5", "0", "0">> }

ResolveDtBodies ==
  { <<"2", "0", "2", "5">>,
    <<"2", "0", "2", "5", "0", "1">>,
    <<"2", "0", "2", "5", "0", "1", "0", "2">>,
    <<"2", "0", "2", "5", "0", "1", "0", "2", "0", "0">>,
    <<"2", "0", "2", "5", "0", "1", "0", "2", "1", "2", "3", "0">>,
    <<"2", "0", "2", "5", "0", "1", "0", "2", "0", "0", "0", "0", "0", "0">>,
    <<"2", "0", "2", "5", "0", "4", "0", "6", "0", "2", "4", "5", "0", "0">>,
    <<"2", "0", "2", "5", "1", "0", "0", "5", "0", "2", "4", "5", "0", "0">>,
    <<"2", "0", "2", "5", "1", "1", "0", "2", "0", "1", "3", "0", "0", "0">>,
    <<"2", "0", "2", "5", "0", "2", "2", "9", "0", "0", "0", "0", "0", "0">>,
    <<"2", "0", "2", "5", "1", "3", "0", "2", "0", "0", "0", "0", "0", "0">>,
    <<"2", "0", "2", "5", "0", "1", "0", "2", "0", "0", "0", "0", "6">>,
    <<"2", "0", "2", "5", "-", "1", "0", "2", "0", "0", "0", "0", "0", "0">> }

ResolveDtFractions == { <<>>,<<".", "5">> }

ResolveDtSuffixes ==
  { <<>>,
    <<"+", "0", "3", "3", "0">>,
    <<"-", "0", "5", "0", "0">>,
    <<"-", "0", "0", "0", "0">>,
    <<"+", "1", "5", "0", "0">>,
    <<"+", "0", "9">>,
    <<"-", "0", "5", "0", "0", " ">> }

ResolveDatetimes ==
  {b \o f \o u : b \in ResolveDtBodies, f \in ResolveDtFractions,
                 u \in ResolveDtSuffixes}

\* The arguments of the parsers while a resolver is under call.
ParseUnused ==
  /\ v = NoString
  /\ date = PriorDate
  /\ date_parsed = PriorDateParsed
  /\ time_parsed = PriorTimeParsed
  /\ ret = FALSE

InitResolve ==
  /\ pc = "call"
  /\ ParseUnused
  /\ SerialUnused
  /\ ExtUnused
  /\ result = NoResult
  /\ \/ /\ fn = "MakeZonedTime"
        /\ date_complete \in ResolveDates
        /\ time_complete \in ResolveTimes
        /\ tz \in Zones
        /\ offset = 0 /\ voffset = NoString
        /\ vdate = NoString /\ vtime = NoString /\ datetime = NoString
     \/ /\ fn = "MakeSysTimeFromOffset"
        /\ date_complete \in ResolveDates
        /\ time_complete \in ResolveTimes
        /\ offset \in ResolveOffsets
        /\ tz = NullTz /\ voffset = NoString
        /\ vdate = NoString /\ vtime = NoString /\ datetime = NoString
     \/ /\ fn = "MakeSysTimeFromOffsetOrTimeZone"
        /\ date_complete \in ResolveDates
        /\ time_complete \in ResolveTimes
        /\ voffset \in ResolveVoffsets
        /\ tz \in TzArgs
        /\ offset = 0
        /\ vdate = NoString /\ vtime = NoString /\ datetime = NoString
     \/ /\ fn = "MakeSysTimeFromDicomDateAndTime"
        /\ vdate \in ResolveVdates
        /\ vtime \in ResolveVtimes
        /\ voffset \in ResolveVoffsets
        /\ tz \in TzArgs
        /\ offset = 0 /\ datetime = NoString
        /\ date_complete = NoDate /\ time_complete = NoTime
     \/ /\ fn = "MakeSysTimeFromDicomDateTime"
        /\ datetime \in ResolveDatetimes
        /\ voffset \in ResolveVoffsets
        /\ tz \in TzArgs
        /\ offset = 0 /\ vdate = NoString /\ vtime = NoString
        /\ date_complete = NoDate /\ time_complete = NoTime

Return(r) ==
  /\ result' = r
  /\ pc' = "done"
  /\ UNCHANGED <<fn, offset, parseVars, serialVars, extVars, date_complete,
                 time_complete, vdate, vtime, datetime, voffset, tz>>

CallMakeZonedTime ==
  /\ pc = "call"
  /\ fn = "MakeZonedTime"
  /\ Return(MakeZonedTime(date_complete, time_complete, tz))

CallMakeSysTimeFromOffset ==
  /\ pc = "call"
  /\ fn = "MakeSysTimeFromOffset"
  /\ Return(MakeSysTimeFromOffset(date_complete, time_complete, offset))

CallMakeSysTimeFromOffsetOrTimeZone ==
  /\ pc = "call"
  /\ fn = "MakeSysTimeFromOffsetOrTimeZone"
  /\ Return(MakeSysTimeFromOffsetOrTimeZone(date_complete, time_complete,
                                            voffset, tz))

CallMakeSysTimeFromDicomDateAndTime ==
  /\ pc = "call"
  /\ fn = "MakeSysTimeFromDicomDateAndTime"
  /\ Return(MakeSysTimeFromDicomDateAndTime(vdate, vtime, voffset, tz))

CallMakeSysTimeFromDicomDateTime ==
  /\ pc = "call"
  /\ fn = "MakeSysTimeFromDicomDateTime"
  /\ Return(MakeSysTimeFromDicomDateTime(datetime, voffset, tz))

NextResolve ==
  \/ CallMakeZonedTime
  \/ CallMakeSysTimeFromOffset
  \/ CallMakeSysTimeFromOffsetOrTimeZone
  \/ CallMakeSysTimeFromDicomDateAndTime
  \/ CallMakeSysTimeFromDicomDateTime

SpecResolve == InitResolve /\ [][NextResolve]_vars

(***************************************************************************)
(* Properties of the resolvers                                             *)
(***************************************************************************)
\* A date of the proleptic Gregorian calendar.
IsCalendarDate(dc) ==
  /\ dc.month \in 1..12
  /\ dc.day >= 1
  /\ dc.day <= LastDayOfMonth(dc.year, dc.month)

\* A DT value with all six components (decimal, the time in the ranges the
\* parser accepts), an optional fraction and then a sign character.
IsCompleteDtWithSuffix(dt) ==
  /\ Len(dt) >= 15
  /\ AllDigits(dt, 1, 14)
  /\ DigitsValue(dt, 9, 10) <= 23
  /\ DigitsValue(dt, 11, 12) <= 59
  /\ DigitsValue(dt, 13, 14) <= 60
  /\ \E k \in 15..Len(dt) :
       /\ dt[k] \in {"+", "-"}
       /\ \A j \in 15..(k - 1) : dt[j] \in Digits \cup {"."}

\* The suffix of such a value: from its first sign character on.
SuffixOf(dt) ==
  SubSeq(dt, CHOOSE k \in 15..Len(dt) :
               /\ dt[k] \in {"+", "-"}
               /\ \A j \in 15..(k - 1) : dt[j] \notin {"+", "-"},
         Len(dt))

DateOfDt(dt) ==
  [year |-> DigitsValue(dt, 1, 4), month |-> DigitsValue(dt, 5, 6),
   day |-> DigitsValue(dt, 7, 8)]

TimeOfDt(dt) ==
  [hour |-> DigitsValue(dt, 9, 10), minute |-> DigitsValue(dt, 11, 12),
   second |-> DigitsValue(dt, 13, 14)]

\* C2: for a DT value with complete date and time components and a
\* UTC-offset suffix, MakeSysTimeFromDicomDateTime resolves the instant with
\* that suffix (kFailedUtcOffsetInDateTime if the suffix does not parse), and
\* returns the same for every separate offset argument and every time zone
\* argument, null included.
C2_EmbeddedOffsetPriority ==
  (pc = "done" /\ fn = "MakeSysTimeFromDicomDateTime"
     /\ IsCompleteDtWithSuffix(datetime)) =>
    /\ result =
         IF ParseDicomUtcOffset(SuffixOf(datetime), 0).ret
           THEN MakeSysTimeFromOffset(
                  DateOfDt(datetime), TimeOfDt(datetime),
                  ParseDicomUtcOffset(SuffixOf(datetime), 0).offset)
           ELSE Unexpected("kFailedUtcOffsetInDateTime")
    /\ \A vo \in ResolveVoffsets : \A z \in TzArgs :
         MakeSysTimeFromDicomDateTime(datetime, vo, z) = result

\* The suffix decided although the separate offset, valid, gives another
\* instant.
C2_Witness ==
  /\ pc = "done"
  /\ fn = "MakeSysTimeFromDicomDateTime"
  /\ IsCompleteDtWithSuffix(datetime)
  /\ tz # NullTz
  /\ result.has_value
  /\ MakeSysTimeFromOffsetOrTimeZone(DateOfDt(datetime), TimeOfDt(datetime),
                                     voffset, tz).has_value
  /\ MakeSysTimeFromOffsetOrTimeZone(DateOfDt(datetime), TimeOfDt(datetime),
                                     voffset, tz) # result
  /\ voffset # NoString

\* C3: MakeSysTimeFromOffsetOrTimeZone with a non-empty offset string
\* returns MakeSysTimeFromOffset with the parsed offset, kFailedUtcOffset if
\* it does not parse, whatever the time zone argument; with an empty offset
\* string it returns kMissingTimeZone for a null time zone and otherwise
\* the resolution of MakeZonedTime.
C3_OffsetOrZone ==
  (pc = "done" /\ fn = "MakeSysTimeFromOffsetOrTimeZone") =>
    IF voffset # NoString
      THEN /\ result =
                IF ParseDicomUtcOffset(voffset, PriorOffset).ret
                  THEN MakeSysTimeFromOffset(
                         date_complete, time_complete,
                         ParseDicomUtcOffset(voffset, PriorOffset).offset)
                  ELSE Unexpected("kFailedUtcOffset")
           /\ \A z \in TzArgs :
                MakeSysTimeFromOffsetOrTimeZone(date_complete, time_complete,
                                                voffset, z) = result
      ELSE IF tz = NullTz
        THEN result = Unexpected("kMissingTimeZone")
        ELSE result = MakeZonedTime(date_complete, time_complete, tz)

\* The offset decided although the zone gives another instant.
C3_Witness ==
  /\ pc = "done"
  /\ fn = "MakeSysTimeFromOffsetOrTimeZone"
  /\ voffset # NoString
  /\ tz # NullTz
  /\ result.has_value
  /\ MakeZonedTime(date_complete, time_complete, tz).has_value
  /\ MakeZonedTime(date_complete, time_complete, tz) # result

\* C4: MakeZonedTime fails with kInvalidDate on an invalid calendar date;
\* on a valid one, a local time of two instants yields the earlier one, a
\* local time of no instant fails with kNonexistentLocalTime, a local time
\* of one instant yields it; an instant returned has that local time in the
\* zone.
C4_DstPolicy ==
  (pc = "done" /\ fn = "MakeZonedTime") =>
    IF ~IsCalendarDate(date_complete)
      THEN result = Unexpected("kInvalidDate")
      ELSE LET lt == LocalSeconds(date_complete, time_complete)
               instants == SysCandidates(tz, lt)
           IN /\ Cardinality(instants) <= 2
              /\ Cardinality(instants) = 2 =>
                   /\ result.has_value
                   /\ result.value \in instants
                   /\ \A x \in instants : result.value <= x
              /\ instants = {} => result = Unexpected("kNonexistentLocalTime")
              /\ Cardinality(instants) = 1 =>
                   /\ result.has_value
                   /\ instants = {result.value}
              /\ result.has_value =>
                   result.value + OffsetAt(tz, result.value) = lt

\* A fall-back local time resolved.
C4_Witness ==
  /\ pc = "done"
  /\ fn = "MakeZonedTime"
  /\ IsCalendarDate(date_complete)
  /\ Cardinality(SysCandidates(tz, LocalSeconds(date_complete,
                                                time_complete))) = 2
  /\ result.has_value

\* C5: the resolvers return an instant only from a text that supplies year,
\* month, day, hour, minute and second.  With a DA value, a TM value HH or
\* HHMM yields kIncompleteTime.  A DT value of components p, alone or
\* followed by a valid UTC-offset suffix, yields kIncompleteDate when p
\* lacks the month or the day, kIncompleteTime when it lacks the hour, the
\* minute or the second, and an instant or another error only when p
\* supplies all six.
C5_NoSilentDefault ==
  /\ (pc = "done" /\ fn = "MakeSysTimeFromDicomDateAndTime") =>
       /\ result.has_value => Len(vtime) >= 6
       /\ (/\ Len(vdate) = 8
           /\ AllDigits(vdate, 1, 8)
           /\ Len(vtime) \in {2, 4}
           /\ AllDigits(vtime, 1, Len(vtime))
           /\ DigitsValue(vtime, 1, 2) <= 23
           /\ Len(vtime) = 4 => DigitsValue(vtime, 3, 4) <= 59)
          => result = Unexpected("kIncompleteTime")
  /\ (pc = "done" /\ fn = "MakeSysTimeFromDicomDateTime") =>
       \A k \in 0..Len(datetime) :
         LET p == SubSeq(datetime, 1, k)
             u == SubSeq(datetime, k + 1, Len(datetime))
         IN (IsDtComponents(p) /\ (u = NoString \/ IsValidSuffix(u))) =>
              /\ result.has_value => Len(p) = 14
              /\ Len(p) < 8 => result = Unexpected("kIncompleteDate")
              /\ Len(p) \in {8, 10, 12} =>
                   result = Unexpected("kIncompleteTime")

\* The days from 1970-01-01 to the first day of year y (y >= 1970), and
\* from the first day of year y to the first day of its month m, counted
\* year by year and month by month.
RECURSIVE DaysBeforeYear(_)
DaysBeforeYear(y) ==
  IF y <= 1970 THEN 0
  ELSE DaysBeforeYear(y - 1) + (IF IsLeap(y - 1) THEN 366 ELSE 365)

RECURSIVE DaysBeforeMonth(_, _)
DaysBeforeMonth(y, m) ==
  IF m <= 1 THEN 0
  ELSE DaysBeforeMonth(y, m - 1) + LastDayOfMonth(y, m - 1)

\* The seconds since the epoch of a calendar date and a time read as UTC.
SecondsAsUtc(dc, tc) ==
  (DaysBeforeYear(dc.year) + DaysBeforeMonth(dc.year, dc.month) + dc.day - 1)
    * 86400 + tc.hour * 3600 + tc.minute * 60 + tc.second

\* C11: MakeSysTimeFromOffset returns kInvalidDate exactly when the date is
\* not a calendar date, and otherwise the seconds since the epoch of the
\* date and time read as UTC, minus 60 seconds per minute of offset;
\* 2025-01-02 00:00:00 at +570 minutes is 2025-01-01T14:30:00Z
\* (1735741800) and at -570 minutes 2025-01-02T09:30:00Z (1735810200).
C11_SysTimeFromOffset ==
  (pc = "done" /\ fn = "MakeSysTimeFromOffset") =>
    /\ (result = Unexpected("kInvalidDate")) <=> ~IsCalendarDate(date_complete)
    /\ IsCalendarDate(date_complete) =>
         result = Ok(SecondsAsUtc(date_complete, time_complete) - 60 * offset)
    /\ (/\ date_complete = [year |-> 2025, month |-> 1, day |-> 2]
        /\ time_complete = [hour |-> 0, minute |-> 0, second |-> 0]) =>
         /\ offset = 570 => result = Ok(1735741800)
         /\ offset = 0 - 570 => result = Ok(1735810200)

\* The example of the tests, at +570 minutes.
C11_Witness ==
  /\ pc = "done"
  /\ fn = "MakeSysTimeFromOffset"
  /\ date_complete = [year |-> 2025, month |-> 1, day |-> 2]
  /\ time_complete = [hour |-> 0, minute |-> 0, second |-> 0]
  /\ offset = 570
  /\ result = Ok(1735741800)

\* The conditions of the errors of MakeSysTimeFromDicomDateAndTime, each on
\* the arguments of the call alone.
DateOfCall == ParseDicomDate(vdate, NoDate)
TimeOfCall == ParseDicomTime(vtime, DefaultTimeParsed)

FailedDateHolds == ~DateOfCall.ret

FailedTimeHolds == ~TimeOfCall.ret

IncompleteTimeHolds ==
  /\ TimeOfCall.ret
  /\ \/ ~TimeOfCall.time.hour.has
     \/ ~TimeOfCall.time.minute.has
     \/ ~TimeOfCall.time.second.has

FailedUtcOffsetHolds ==
  voffset # NoString /\ ~ParseDicomUtcOffset(voffset, PriorOffset).ret

MissingTimeZoneHolds == voffset = NoString /\ tz = NullTz

InvalidDateHolds == DateOfCall.ret /\ ~IsCalendarDate(DateOfCall.date)

NonexistentLocalTimeHolds ==
  /\ voffset = NoString
  /\ tz # NullTz
  /\ DateOfCall.ret
  /\ IsCalendarDate(DateOfCall.date)
  /\ TimeOfCall.ret
  /\ ~IncompleteTimeHolds
  /\ SysCandidates(tz, LocalSeconds(
                         DateOfCall.date,
                         [hour |-> TimeOfCall.time.hour.val,
                          minute |-> TimeOfCall.time.minute.val,
                          second |-> TimeOfCall.time.second.val])) = {}

\* The first error of the fixed order whose condition holds, "none" when
\* no condition holds.
FirstErrorOfCall ==
  IF FailedDateHolds THEN "kFailedDate"
  ELSE IF FailedTimeHolds THEN "kFailedTime"
  ELSE IF IncompleteTimeHolds THEN "kIncompleteTime"
  ELSE IF FailedUtcOffsetHolds THEN "kFailedUtcOffset"
  ELSE IF MissingTimeZoneHolds THEN "kMissingTimeZone"
  ELSE IF InvalidDateHolds THEN "kInvalidDate"
  ELSE IF NonexistentLocalTimeHolds THEN "kNonexistentLocalTime"
  ELSE "none"

\* C27: MakeSysTimeFromDicomDateAndTime returns the first error whose
\* condition holds in the order kFailedDate, kFailedTime, kIncompleteTime,
\* then kFailedUtcOffset (offset string non-empty and unparseable) or
\* kMissingTimeZone (offset string empty and null zone), then kInvalidDate,
\* then kNonexistentLocalTime, and it succeeds exactly when none holds.
C27_ErrorPrecedence ==
  (pc = "done" /\ fn = "MakeSysTimeFromDicomDateAndTime") =>
    IF FirstErrorOfCall = "none"
      THEN result.has_value
      ELSE result = Unexpected(FirstErrorOfCall)

\* An unparseable time, an unparseable offset and an invalid calendar date
\* in one call: the time decides.
C27_Witness ==
  /\ pc = "done"
  /\ fn = "MakeSysTimeFromDicomDateAndTime"
  /\ ~FailedDateHolds
  /\ FailedTimeHolds
  /\ FailedUtcOffsetHolds
  /\ InvalidDateHolds
  /\ result = Unexpected("kFailedTime")

(***************************************************************************)
(* Serialization of Spect records: doubles as text                         *)
(***************************************************************************)
Newline == "\n"

\* A finite double is identified by a decimal: sign, significand m and
\* exponent e of m * 10^e, m without trailing zero (0 is m = 0, e = 0).
\* The doubles of the model have at most 9 significant digits, and those a
\* rounding to Precision digits ties on are exact in binary, so each is the
\* double nearest its decimal and the decimal decides every rounding.
RECURSIVE Normal(_, _, _)
Normal(neg, m, e) ==
  IF m = 0 THEN [neg |-> neg, m |-> 0, e |-> 0]
  ELSE IF m % 10 = 0 THEN Normal(neg, m \div 10, e + 1)
  ELSE [neg |-> neg, m |-> m, e |-> e]

Zero == [neg |-> FALSE, m |-> 0, e |-> 0]

\* std::optional<double>
NulloptDouble == [has |-> FALSE, val |-> Zero]

RECURSIVE NumDigits(_)
NumDigits(m) == IF m < 10 THEN 1 ELSE 1 + NumDigits(m \div 10)

DigitChar(n) == <<"0", "1", "2", "3", "4", "5", "6", "7", "8", "9">>[n + 1]

RECURSIVE DigitChars(_)
DigitChars(m) ==
  IF m < 10 THEN <<DigitChar(m)>>
  ELSE DigitChars(m \div 10) \o <<DigitChar(m % 10)>>

RECURSIVE Pow10(_)
Pow10(k) == IF k = 0 THEN 1 ELSE 10 * Pow10(k - 1)

Zeros(k) == [i \in 1..k |-> "0"]

Abs(x) == IF x < 0 THEN 0 - x ELSE x

\* std::ostream's default precision.
Precision == 6

\* The significand rounded to Precision digits, to nearest and ties to
\* even.
RoundToPrecision(x) ==
  IF NumDigits(x.m) <= Precision THEN x
  ELSE LET k == NumDigits(x.m) - Precision
           q == x.m \div Pow10(NumDigits(x.m) - Precision)
           r == x.m % Pow10(NumDigits(x.m) - Precision)
           half == 5 * Pow10(NumDigits(x.m) - Precision - 1)
       IN Normal(x.neg,
                 IF r > half \/ (r = half /\ q % 2 = 1) THEN q + 1 ELSE q,
                 x.e + k)

\* The decimal exponent of the first significant digit.
Exp10(x) == NumDigits(x.m) - 1 + x.e

\* %g in fixed notation, trailing zeros and a trailing point removed.
FormatFixed(x) ==
  IF x.e >= 0 THEN DigitChars(x.m) \o Zeros(x.e)
  ELSE IF Exp10(x) >= 0
    THEN SubSeq(DigitChars(x.m), 1, Exp10(x) + 1) \o <<".">>
           \o SubSeq(DigitChars(x.m), Exp10(x) + 2, NumDigits(x.m))
    ELSE <<"0", ".">> \o Zeros(0 - Exp10(x) - 1) \o DigitChars(x.m)

\* %g in scientific notation: an exponent of at least two digits.
FormatScientific(x) ==
  <<Head(DigitChars(x.m))>>
    \o (IF NumDigits(x.m) > 1 THEN <<".">> \o Tail(DigitChars(x.m))
                              ELSE <<>>)
    \o <<"e", IF Exp10(x) < 0 THEN "-" ELSE "+">>
    \o (IF Abs(Exp10(x)) < 10 THEN <<"0">> ELSE <<>>)
    \o DigitChars(Abs(Exp10(x)))

FormatRounded(x) ==
  (IF x.neg THEN <<"-">> ELSE <<>>)
    \o (IF x.m = 0 THEN <<"0">>
        ELSE IF Exp10(x) >= 0 - 4 /\ Exp10(x) < Precision
          THEN FormatFixed(x)
          ELSE FormatScientific(x))

\* os << double, with the stream's default flags.
OutputDouble(x) == FormatRounded(RoundToPrecision(x))

\* std::strtod in the "C" locale on a decimal: white space, an optional
\* sign, digits with an optional point, and an exponent if it has a digit.
\* Each operator below is a position or a length in the line s.  The
\* lines of the model hold no "inf", "nan" or "0x" form.
Space == {" ", "\t", "\r", "\f", Newline}

RECURSIVE Span(_, _, _)
Span(s, i, C) ==
  IF i > Len(s) \/ s[i] \notin C THEN 0 ELSE 1 + Span(s, i + 1, C)

SignPos(s) == 1 + Span(s, 1, Space)
HasSign(s) == SignPos(s) <= Len(s) /\ s[SignPos(s)] \in {"+", "-"}
IntPos(s) == SignPos(s) + (IF HasSign(s) THEN 1 ELSE 0)
IntLen(s) == Span(s, IntPos(s), Digits)
PointPos(s) == IntPos(s) + IntLen(s)
HasPoint(s) == PointPos(s) <= Len(s) /\ s[PointPos(s)] = "."
FracLen(s) == IF HasPoint(s) THEN Span(s, PointPos(s) + 1, Digits) ELSE 0
ExpPos(s) == PointPos(s) + (IF HasPoint(s) THEN 1 + FracLen(s) ELSE 0)
HasExpSign(s) == ExpPos(s) < Len(s) /\ s[ExpPos(s) + 1] \in {"+", "-"}
ExpDigitsPos(s) == ExpPos(s) + 1 + (IF HasExpSign(s) THEN 1 ELSE 0)
ExpLen(s) ==
  IF ExpPos(s) <= Len(s) /\ s[ExpPos(s)] \in {"e", "E"}
    THEN Span(s, ExpDigitsPos(s), Digits)
    ELSE 0

Exponent(s) ==
  IF ExpLen(s) = 0 THEN 0
  ELSE (IF HasExpSign(s) /\ s[ExpPos(s) + 1] = "-" THEN 0 - 1 ELSE 1)
         * DigitsValue(s, ExpDigitsPos(s), ExpDigitsPos(s) + ExpLen(s) - 1)

\* converted is end != line.c_str().
Strtod(s) ==
  IF IntLen(s) + FracLen(s) = 0
    THEN [converted |-> FALSE, d |-> Zero]
    ELSE [converted |-> TRUE,
          d |-> Normal(HasSign(s) /\ s[SignPos(s)] = "-",
                       DigitsValue(s, IntPos(s), PointPos(s) - 1)
                           * Pow10(FracLen(s))
                         + DigitsValue(s, PointPos(s) + 1,
                                       PointPos(s) + FracLen(s)),
                       Exponent(s) - FracLen(s))]

(***************************************************************************)
(* Serialization of Spect records: WriteSpects and ReadSpects              *)
(***************************************************************************)
\* Spect{}
DefaultSpect ==
  [patient_name |-> NoString,
   radiopharmaceutical_start_date_time |-> NoString,
   acquisition_date |-> NoString,
   acquisition_time |-> NoString,
   series_date |-> NoString,
   series_time |-> NoString,
   frame_reference_time |-> NulloptDouble,
   timezone_offset_from_utc |-> NoString,
   decay_correction |-> NoString,
   radionuclide_half_life |-> NulloptDouble]

\* The string fields, in the order WriteSpects examines them.
StringFields ==
  <<"patient_name", "radiopharmaceutical_start_date_time",
    "acquisition_date", "acquisition_time", "series_date", "series_time",
    "timezone_offset_from_utc", "decay_correction">>

NumericFields == {"frame_reference_time", "radionuclide_half_life"}

\* The same without the cut at the newline.
GetFirstLineWhole(s) == s

GetFirstLine(s) ==
  IF FindFirstOf(s, {Newline}) # 0
    THEN SubSeq(s, 1, FindFirstOf(s, {Newline}) - 1)
    ELSE s

HeaderLines ==
  <<"T", "h", "i", "s", " ", "f", "i", "l", "e", " ", "w", "a", "s",
     " ", "c", "r", "e", "a", "t", "e", "d", " ", "b", "y", " ", "S",
     "p", "i", "d", "e", "r", ".", Newline, "I", "f", " ", "y", "o",
     "u", " ", "e", "d", "i", "t", " ", "i", "t", " ", "b", "y", " ",
     "h", "a", "n", "d", ",", " ", "y", "o", "u", " ", "c", "o", "u",
     "l", "d", " ", "m", "e", "s", "s", " ", "i", "t", " ", "u", "p",
     ".", Newline>>

Line(s) == s \o <<Newline>>

\* What the second loop of WriteSpects puts on the stream for one record.
RecordText(spect) ==
  <<Newline>>
    \o Line(GetFirstLine(spect.patient_name))
    \o Line(GetFirstLine(spect.radiopharmaceutical_start_date_time))
    \o Line(GetFirstLine(spect.acquisition_date))
    \o Line(GetFirstLine(spect.acquisition_time))
    \o Line(GetFirstLine(spect.series_date))
    \o Line(GetFirstLine(spect.series_time))
    \o Line(IF spect.frame_reference_time.has
              THEN OutputDouble(spect.frame_reference_time.val)
              ELSE <<>>)
    \o Line(GetFirstLine(spect.timezone_offset_from_utc))
    \o Line(GetFirstLine(spect.decay_correction))
    \o Line(IF spect.radionuclide_half_life.has
              THEN OutputDouble(spect.radionuclide_half_life.val)
              ELSE <<>>)

RECURSIVE RecordsText(_, _)
RecordsText(xs, i) ==
  IF i > Len(xs) THEN <<>> ELSE RecordText(xs[i]) \o RecordsText(xs, i + 1)

\* The first loop of WriteSpects: one warning per string field that holds
\* a newline, by record and then in the order of StringFields.
Warnings(xs) ==
  SelectSeq([k \in 1..(Len(StringFields) * Len(xs)) |->
               <<((k - 1) \div Len(StringFields)) + 1,
                 StringFields[((k - 1) % Len(StringFields)) + 1]>>],
            LAMBDA w : GetFirstLine(xs[w[1]][w[2]]) # xs[w[1]][w[2]])

WriteSpects(xs) ==
  [os |-> HeaderLines \o RecordsText(xs, 1), warnings |-> Warnings(xs)]

\* The number of characters from position i up to the next newline or the
\* end of the text.
RECURSIVE LineLen(_, _)
LineLen(text, i) ==
  IF i > Len(text) \/ text[i] = Newline THEN 0
  ELSE 1 + LineLen(text, i + 1)

\* The lines successive calls of std::getline extract from position start
\* on, up to the first call that fails: a call at the end of the text
\* extracts nothing and fails, a last line without newline is extracted.
RECURSIVE GetLines(_, _)
GetLines(text, start) ==
  IF start > Len(text) THEN <<>>
  ELSE <<SubSeq(text, start, start + LineLen(text, start) - 1)>>
         \o GetLines(text, start + LineLen(text, start) + 1)

\* Field k of the record whose first field line is L[j]; a field whose
\* getline failed, or came after one that failed, keeps its default.
StringField(L, j, k) == IF j + k - 1 <= Len(L) THEN L[j + k - 1] ELSE NoString

NumericField(L, j, k) ==
  IF j + k - 1 <= Len(L) /\ Strtod(L[j + k - 1]).converted
    THEN [has |-> TRUE, val |-> Strtod(L[j + k - 1]).d]
    ELSE NulloptDouble

ReadSpect(L, j) ==
  [patient_name |-> StringField(L, j, 1),
   radiopharmaceutical_start_date_time |-> StringField(L, j, 2),
   acquisition_date |-> StringField(L, j, 3),
   acquisition_time |-> StringField(L, j, 4),
   series_date |-> StringField(L, j, 5),
   series_time |-> StringField(L, j, 6),
   frame_reference_time |-> NumericField(L, j, 7),
   timezone_offset_from_utc |-> StringField(L, j, 8),
   decay_correction |-> StringField(L, j, 9),
   radionuclide_half_life |-> NumericField(L, j, 10)]

\* A variant of the loop that adds the record before it reads the
\* separator line.
RECURSIVE ReadRecordsEmplaceFirst(_, _)
ReadRecordsEmplaceFirst(L, i) ==
  <<ReadSpect(L, i + 1)>>
    \o (IF i + 10 <= Len(L) THEN ReadRecordsEmplaceFirst(L, i + 11)
                            ELSE <<>>)

ReadSpectsEmplaceFirst(in) ==
  IF Len(GetLines(in, 1)) < 2 THEN <<>>
  ELSE ReadRecordsEmplaceFirst(GetLines(in, 1), 3)

\* A variant of the loop that keeps complete records only.
RECURSIVE ReadRecordsCompleteOnly(_, _)
ReadRecordsCompleteOnly(L, i) ==
  IF i + 10 > Len(L) THEN <<>>
  ELSE <<ReadSpect(L, i + 1)>> \o ReadRecordsCompleteOnly(L, i + 11)

\* The loop of ReadSpects with the separator line at L[i]: it ends at the
\* first getline that fails.
RECURSIVE ReadRecords(_, _)
ReadRecords(L, i) ==
  IF i > Len(L) THEN <<>>
  ELSE <<ReadSpect(L, i + 1)>>
         \o (IF i + 10 <= Len(L) THEN ReadRecords(L, i + 11) ELSE <<>>)

ReadSpects(in) ==
  IF Len(GetLines(in, 1)) < 2 THEN <<>>
  ELSE ReadRecords(GetLines(in, 1), 3)

(***************************************************************************)
(* Inputs of the serialization                                             *)
(***************************************************************************)
MaxSpects == 2

Double(neg, m, e) == [has |-> TRUE, val |-> Normal(neg, m, e)]

\* <<frame_reference_time, radionuclide_half_life>>
NumericSamples ==
  << <<Double(FALSE, 1234, 0), Double(FALSE, 123456789, 0 - 2)>>,
     <<Double(FALSE, 123, 0), NulloptDouble>>,
     <<Double(FALSE, 86219, 0), Double(FALSE, 2311, 0 - 2)>>,
     <<NulloptDouble, Double(FALSE, 5743, 2)>>,
     <<Double(FALSE, 0, 0), Double(FALSE, 5, 0 - 1)>>,
     <<Double(FALSE, 1, 0 - 1), NulloptDouble>>,
     <<Double(FALSE, 566125, 0), Double(FALSE, 2311, 0 - 2)>>,
     <<Double(FALSE, 1, 6), Double(FALSE, 5743, 2)>>,
     <<Double(FALSE, 1, 22), Double(FALSE, 5, 0 - 1)>>,
     <<Double(FALSE, 12345, 0 - 9), NulloptDouble>>,
     <<Double(FALSE, 1, 0 - 4), Double(FALSE, 2311, 0 - 2)>>,
     <<Double(TRUE, 25, 0 - 1), Double(FALSE, 5743, 2)>>,
     <<Double(FALSE, 1234565, 0), Double(FALSE, 5, 0 - 1)>>,
     <<Double(FALSE, 9999995, 0 - 1), NulloptDouble>>,
     <<Double(FALSE, 1, 5), Double(FALSE, 1234575, 0)>>,
     <<NulloptDouble, NulloptDouble>> >>

\* The string fields, in the order of StringFields.
StringSamples ==
  << << <<"D", "O", "E", "^", "J", "O", "H", "N">>,
        <<"2", "0", "2", "4", "1", "0", "0", "7", "1", "3", "1", "2", "0",
             "8", "-", "0", "3", "0", "0">>,
        <<"2", "0", "2", "4", "1", "0", "1", "3">>,
        <<"1", "2", "3", "2", "5", "0", ".", "1", "1", "2", "3", " ">>,
        <<"2", "0", "2", "4", "1", "0", "1", "2">>,
        <<"1", "2", "3", "2", "5", "0", ".", "1">>,
        <<>>,
        <<"S", "T", "A", "R", "T", " ">> >>,
     << <<"D", "O", "E", "^", "J", "A", "N", "E">>,
        <<"2", "0", "2", "2">>,
        <<"2", "0", "2", "2", "0", "3", "1", "1">>,
        <<"0", "2">>,
        <<"2", "0", "2", "2", "0", "3", "1", "1">>,
        <<"0", "2">>,
        <<"+", "0", "8", "3", "0">>,
        <<"N", "O", "N", "E">> >>,
     << <<>>,
        <<>>,
        <<>>,
        <<>>,
        <<>>,
        <<>>,
        <<>>,
        <<>> >>,
     << <<"H", "e", "l", "l", "o", ",", Newline, "W", "o", "r", "l", "d">>,
        <<"2", "0", "2", "2", Newline>>,
        <<"2", "0", "2", "2", "0", "3", "1", "1">>,
        <<Newline, "0", "2">>,
        <<"2", "0", "2", "2", "0", "3", "1", "1">>,
        <<"0", "2">>,
        <<>>,
        <<"N", "O", "N", "E", Newline, "S", "T", "A", "R", "T">> >> >>

MakeSpect(strs, nums) ==
  [patient_name |-> strs[1],
   radiopharmaceutical_start_date_time |-> strs[2],
   acquisition_date |-> strs[3],
   acquisition_time |-> strs[4],
   series_date |-> strs[5],
   series_time |-> strs[6],
   frame_reference_time |-> nums[1],
   timezone_offset_from_utc |-> strs[7],
   decay_correction |-> strs[8],
   radionuclide_half_life |-> nums[2]]

\* <<string sample, numeric sample>>: every numeric sample once, and four
\* more pairs.
SampleIndexes ==
  {pk \in (1..Len(StringSamples)) \X (1..Len(NumericSamples)) :
     (pk[2] - pk[1]) % Len(StringSamples) = 0}
    \cup {<<1, 2>>, <<3, 10>>, <<3, 16>>, <<2, 13>>}

SpectSamples ==
  {MakeSpect(StringSamples[pk[1]], NumericSamples[pk[2]]) :
     pk \in SampleIndexes}

SpectsInputs == UNION {[1..n -> SpectSamples] : n \in 0..MaxSpects}

(***************************************************************************)
(* The serialization as operations: a collection is written to a stream   *)
(* and the stream is read back.                                            *)
(***************************************************************************)
InitSerial ==
  /\ pc = "call"
  /\ fn = "WriteSpects"
  /\ spects \in SpectsInputs
  /\ os = NoString
  /\ warnings = <<>>
  /\ spects_read = <<>>
  /\ offset = 0
  /\ ParseUnused
  /\ ResolveUnused
  /\ ExtUnused

CallWriteSpects ==
  /\ pc = "call"
  /\ fn = "WriteSpects"
  /\ os' = WriteSpects(spects).os
  /\ warnings' = WriteSpects(spects).warnings
  /\ fn' = "ReadSpects"
  /\ pc' = "call"
  /\ UNCHANGED <<spects, spects_read, offset, parseVars, resolveVars, extVars>>

CallReadSpects ==
  /\ pc = "call"
  /\ fn = "ReadSpects"
  /\ spects_read' = ReadSpects(os)
  /\ pc' = "done"
  /\ UNCHANGED <<fn, spects, os, warnings, offset, parseVars, resolveVars,
                 extVars>>

NextSerial == CallWriteSpects \/ CallReadSpects

SpecSerial == InitSerial /\ [][NextSerial]_vars

(***************************************************************************)
(* ReadSpects on a stream that ends anywhere: the texts WriteSpects writes, *)
(* cut after any character, or with one more empty line.                   *)
(***************************************************************************)
\* A record with every field, one with an absent half life (an empty tenth
\* line), and one with every field empty.
ReadRecordSamples ==
  {MakeSpect(StringSamples[1], NumericSamples[3]),
   MakeSpect(StringSamples[2], NumericSamples[2]),
   MakeSpect(StringSamples[3], NumericSamples[16])}

\* Two header lines, those of WriteSpects or two empty ones, and the
\* records.
ReadTexts ==
  {header \o RecordsText(xs, 1) :
     header \in {HeaderLines, <<Newline, Newline>>},
     xs \in UNION {[1..n -> ReadRecordSamples] : n \in 0..MaxSpects}}

ReadInputs ==
  UNION {{SubSeq(text, 1, n) : n \in 0..Len(text)} : text \in ReadTexts}
    \cup {text \o <<Newline>> : text \in ReadTexts}

InitRead ==
  /\ pc = "start"
  /\ fn = "ReadSpects"
  /\ cin \in ReadInputs
  /\ cin_read = FALSE
  /\ spects_read = <<>>
  /\ spects = <<>>
  /\ os = NoString
  /\ warnings = <<>>
  /\ argv = <<>>
  /\ args = <<>>
  /\ exit_status = "none"
  /\ cout = <<>>
  /\ cerr = <<>>
  /\ tz_current = "nullptr"
  /\ time_zones = <<>>
  /\ tia_nii = "absent"
  /\ image_file_writer = "none"
  /\ administration_times = <<>>
  /\ acquisition_times = <<>>
  /\ hours_since_administration = <<>>
  /\ offset = 0
  /\ ParseUnused
  /\ ResolveUnused
  /\ SpectUnused
  /\ TiaUnused

\* ReadSpects(in) reads the stream to its end.
CallReadSpectsStream ==
  /\ pc = "start"
  /\ fn = "ReadSpects"
  /\ spects_read' = ReadSpects(cin)
  /\ cin_read' = TRUE
  /\ pc' = "returned"
  /\ UNCHANGED <<fn, offset, parseVars, resolveVars, spects, os, warnings,
                 spectVars, tiaVars, argv, args, exit_status, cout, cerr,
                 cin, tz_current, time_zones, tia_nii, image_file_writer,
                 administration_times, acquisition_times,
                 hours_since_administration>>

NextRead == CallReadSpectsStream

SpecRead == InitRead /\ [][NextRead]_vars

(***************************************************************************)
(* Properties of the serialization                                         *)
(***************************************************************************)
\* No string field holds a newline and every numeric present has at most
\* six significant digits.
IsRoundTripInput(spect) ==
  /\ \A k \in 1..Len(StringFields) :
       \A i \in 1..Len(spect[StringFields[k]]) :
         spect[StringFields[k]][i] # Newline
  /\ \A f \in NumericFields : spect[f].has => NumDigits(spect[f].val.m) <= 6

\* C1: ReadSpects applied to the text WriteSpects wrote for a collection
\* whose strings hold no newline and whose numerics have at most six
\* significant digits returns a collection of the same length in which
\* every field of every record equals the original.
C1_RoundTrip ==
  (/\ pc = "done"
   /\ fn = "ReadSpects"
   /\ \A i \in 1..Len(spects) : IsRoundTripInput(spects[i])) =>
    /\ Len(spects_read) = Len(spects)
    /\ \A i \in 1..Len(spects) :
         /\ \A k \in 1..Len(StringFields) :
              spects_read[i][StringFields[k]] = spects[i][StringFields[k]]
         /\ \A f \in NumericFields : spects_read[i][f] = spects[i][f]

\* Two records came back, one with an absent numeric and an empty string,
\* one with a numeric written in scientific notation.
C1_Witness ==
  /\ pc = "done"
  /\ fn = "ReadSpects"
  /\ Len(spects) = 2
  /\ \A i \in 1..Len(spects) : IsRoundTripInput(spects[i])
  /\ spects_read = spects
  /\ ~spects[1].radionuclide_half_life.has
  /\ spects[1].timezone_offset_from_utc = NoString
  /\ spects[2].frame_reference_time.has
  /\ \E i \in 1..Len(OutputDouble(spects[2].frame_reference_time.val)) :
       OutputDouble(spects[2].frame_reference_time.val)[i] = "e"

(***************************************************************************)
(* Properties of the text WriteSpects writes                               *)
(***************************************************************************)
\* The fields in the order of the lines of a record.
FieldOrder ==
  <<"patient_name", "radiopharmaceutical_start_date_time",
    "acquisition_date", "acquisition_time", "series_date", "series_time",
    "frame_reference_time", "timezone_offset_from_utc", "decay_correction",
    "radionuclide_half_life">>

HasNewline(s) == \E i \in 1..Len(s) : s[i] = Newline

\* The text of s before its first newline, or s when it has none.
TextBeforeNewline(s) ==
  CHOOSE t \in {SubSeq(s, 1, k) : k \in 0..Len(s)} :
    /\ ~HasNewline(t)
    /\ Len(t) = Len(s) \/ s[Len(t) + 1] = Newline

\* The line a field of a record is expected on.
ExpectedLine(spect, f) ==
  IF f \in NumericFields
    THEN (IF spect[f].has THEN OutputDouble(spect[f].val) ELSE <<>>)
    ELSE TextBeforeNewline(spect[f])

\* C23: what WriteSpects writes for n records is 2 + 11 * n lines, each
\* ended by a newline: the two header lines, then for each record in order
\* an empty line and the 10 fields in the order of FieldOrder, a string
\* field as its text before the first newline, an absent numeric as an
\* empty line; a warning names record and field exactly for the string
\* fields that hold a newline.
C23_Framing ==
  (fn = "ReadSpects" /\ os # NoString) =>
    \A L \in {GetLines(os, 1)} :
      /\ os[Len(os)] = Newline
      /\ Len(L) = 2 + 11 * Len(spects)
      /\ L[1] \o <<Newline>> \o L[2] \o <<Newline>> = HeaderLines
      /\ \A i \in 1..Len(spects) :
           /\ L[2 + 11 * (i - 1) + 1] = <<>>
           /\ \A k \in 1..Len(FieldOrder) :
                L[2 + 11 * (i - 1) + 1 + k]
                  = ExpectedLine(spects[i], FieldOrder[k])
           /\ \A k \in 1..Len(StringFields) :
                HasNewline(spects[i][StringFields[k]])
                  <=> \E w \in 1..Len(warnings) :
                        warnings[w] = <<i, StringFields[k]>>

\* Two records were written, the first with newlines in four of its string
\* fields and the second with an absent numeric.
C23_Witness ==
  /\ fn = "ReadSpects"
  /\ os # NoString
  /\ Len(spects) = 2
  /\ HasNewline(spects[1].patient_name)
  /\ spects[1].acquisition_time[1] = Newline
  /\ Len(warnings) = 4
  /\ ~spects[2].radionuclide_half_life.has

(***************************************************************************)
(* Properties of ReadSpects at the end of the input                        *)
(***************************************************************************)
\* What a field holds once its line has been read.
FieldFromLine(f, line) ==
  IF f \in NumericFields
    THEN (IF Strtod(line).converted
            THEN [has |-> TRUE, val |-> Strtod(line).d]
            ELSE NulloptDouble)
    ELSE line

\* The lines of the input after the two header lines, the number of
\* complete blocks of 11 lines among them and the number of lines left.
LinesAfterHeader == Len(GetLines(cin, 1)) - 2
CompleteBlocks == LinesAfterHeader \div 11
LinesLeft == LinesAfterHeader % 11

\* Record j holds the first k field lines of block j and nothing else.
HoldsFieldLines(j, k) ==
  \A h \in 1..Len(FieldOrder) :
    spects_read[j][FieldOrder[h]] =
      IF h <= k
        THEN FieldFromLine(FieldOrder[h],
                           GetLines(cin, 1)[2 + 11 * (j - 1) + 1 + h])
        ELSE DefaultSpect[FieldOrder[h]]

\* C24: ReadSpects skips two lines and then takes blocks of one separator
\* line and ten field lines.  Where the input ends before the second header
\* line, right after the header or right after the tenth field line of a
\* record, it returns the complete records and nothing more; where it ends
\* after k field lines of a record, 0 < k < 10, the last record returned
\* holds these k lines in its first k fields and defaults in the others;
\* the records before it hold their ten lines.
C24_EndOfInput ==
  (fn = "ReadSpects" /\ pc = "returned") =>
    /\ LinesAfterHeader < 0 => spects_read = <<>>
    /\ LinesAfterHeader >= 0 =>
         /\ Len(spects_read) >= CompleteBlocks
         /\ \A j \in 1..CompleteBlocks : HoldsFieldLines(j, 10)
         /\ LinesLeft = 0 => Len(spects_read) = CompleteBlocks
         /\ LinesLeft >= 2 =>
              /\ Len(spects_read) = CompleteBlocks + 1
              /\ HoldsFieldLines(CompleteBlocks + 1, LinesLeft - 1)

\* The input ended after the seventh field line of the second record: the
\* record has its frame reference time and no decay correction.
C24_Witness ==
  /\ fn = "ReadSpects"
  /\ pc = "returned"
  /\ CompleteBlocks = 1
  /\ LinesLeft = 8
  /\ Len(spects_read) = 2
  /\ spects_read[2].frame_reference_time.has
  /\ spects_read[2].patient_name # NoString
  /\ spects_read[2].decay_correction = NoString
  /\ spects_read[1].decay_correction # NoString

\* C29: for an input of two header lines and k complete blocks of 11
\* lines, with or without one more empty line after the last block,
\* ReadSpects returns k records; no record is returned without a field
\* line of its own.
C29_RecordCount ==
  (fn = "ReadSpects" /\ pc = "returned" /\ LinesAfterHeader >= 0) =>
    /\ LinesLeft = 0 => Len(spects_read) = CompleteBlocks
    /\ (LinesLeft = 1 /\ GetLines(cin, 1)[Len(GetLines(cin, 1))] = <<>>) =>
         Len(spects_read) = CompleteBlocks
    /\ Len(spects_read) > 0 =>
         LinesAfterHeader >= 11 * (Len(spects_read) - 1) + 2

(***************************************************************************)
(* Functions of one Spect record: the instants of a record and its decay   *)
(* factor                                                                  *)
(***************************************************************************)
\* std::unexpected(TimePointErrorWithId{ .id, .error })
UnexpectedWithId(id, e) ==
  [has_value |-> FALSE, value |-> 0, error |-> [id |-> id, error |-> e]]

\* The .error member the two lambdas compute.
RemapError(e) ==
  IF e = "kFailedUtcOffset" THEN "kFailedTimezoneOffsetFromUtc" ELSE e

\* .transform_error(lambda) of MakeAcquisitionSysTime on the result r of
\* MakeSysTimeFromDicomDateAndTime.
AcquisitionTransformError(r) ==
  IF r.has_value THEN r
  ELSE UnexpectedWithId("kAcquisitionDateAndTime", RemapError(r.error))

MakeAcquisitionSysTime(s, z) ==
  CHOOSE e \in {AcquisitionTransformError(r) :
                  r \in {MakeSysTimeFromDicomDateAndTime(
                           s.acquisition_date, s.acquisition_time,
                           s.timezone_offset_from_utc, z)}} : TRUE

\* A variant that tags the error with the id of the other wrapper.
StartTransformErrorOtherId(r) ==
  IF r.has_value THEN r
  ELSE UnexpectedWithId("kAcquisitionDateAndTime", RemapError(r.error))

\* .transform_error(lambda) of MakeRadiopharmaceuticalStartSysTime on the
\* result r of MakeSysTimeFromDicomDateTime.
StartTransformError(r) ==
  IF r.has_value THEN r
  ELSE UnexpectedWithId("kRadiopharmaceuticalStartDateTime",
                        RemapError(r.error))

MakeRadiopharmaceuticalStartSysTime(s, z) ==
  CHOOSE e \in {StartTransformError(r) :
                  r \in {MakeSysTimeFromDicomDateTime(
                           s.radiopharmaceutical_start_date_time,
                           s.timezone_offset_from_utc, z)}} : TRUE

\* std::optional<DecayCorrection>
NulloptDecayCorrection == [has |-> FALSE, val |-> "none"]

\* A variant that ignores trailing spaces of the value.
ParseDicomDecayCorrectionTrimmed(text) ==
  IF Len(text) >= 4 /\ SubSeq(text, 1, 4) = <<"N", "O", "N", "E">>
       /\ \A i \in 5..Len(text) : text[i] = " "
    THEN [has |-> TRUE, val |-> "kNone"]
  ELSE IF Len(text) >= 5 /\ SubSeq(text, 1, 5) = <<"S", "T", "A", "R", "T">>
            /\ \A i \in 6..Len(text) : text[i] = " "
    THEN [has |-> TRUE, val |-> "kStart"]
  ELSE IF Len(text) >= 5 /\ SubSeq(text, 1, 5) = <<"A", "D", "M", "I", "N">>
            /\ \A i \in 6..Len(text) : text[i] = " "
    THEN [has |-> TRUE, val |-> "kAdmin"]
  ELSE NulloptDecayCorrection

ParseDicomDecayCorrection(text) ==
  IF text = <<"N", "O", "N", "E">> THEN [has |-> TRUE, val |-> "kNone"]
  ELSE IF text = <<"S", "T", "A", "R", "T", " ">>
    THEN [has |-> TRUE, val |-> "kStart"]
  ELSE IF text = <<"A", "D", "M", "I", "N", " ">>
    THEN [has |-> TRUE, val |-> "kAdmin"]
  ELSE NulloptDecayCorrection

\* The std::variant<TimePointErrorWithId, DecayCorrectionError> of a failed
\* decay factor.
DecayCorrectionError(e) ==
  [has_value |-> FALSE, value |-> 0,
   error |-> [alt |-> "DecayCorrectionError", id |-> "none", error |-> e]]

TimePointErrorOf(r) ==
  [has_value |-> FALSE, value |-> 0,
   error |-> [alt |-> "TimePointErrorWithId", id |-> r.error.id,
              error |-> r.error.error]]

\* A decay factor is kept as the expression that yields it: the double 1.0,
\* or exp(ln 2 * t / half_life) with t and half_life in seconds, or
\* exp(-ln 2 * t / half_life).  t is a decimal; a frame reference time of
\* m * 10^e milliseconds is m * 10^(e - 3) seconds.
DecayFactorOne == [expr |-> "1.0", t |-> Zero, half_life |-> Zero]

IsPositive(x) == x.m > 0 /\ ~x.neg

\* The NONE computation, acq being the acquisition instant of s.
DecayFactorNoneFrom(s, acq) ==
  IF ~s.frame_reference_time.has
    THEN DecayCorrectionError("kMissingFrameReferenceTime")
  ELSE IF ~s.radionuclide_half_life.has
    THEN DecayCorrectionError("kMissingHalfLife")
  ELSE IF ~IsPositive(s.radionuclide_half_life.val)
    THEN DecayCorrectionError("kHalfLifeLessThanOrEqualToZero")
  ELSE IF ~acq.has_value THEN TimePointErrorOf(acq)
  ELSE Ok([expr |-> "exp(ln2*t/half_life)",
           t |-> Normal(s.frame_reference_time.val.neg,
                        s.frame_reference_time.val.m,
                        s.frame_reference_time.val.e - 3),
           half_life |-> s.radionuclide_half_life.val])

ComputeDecayFactorNone(s, z) ==
  CHOOSE df \in {DecayFactorNoneFrom(s, acq) :
                   acq \in {MakeAcquisitionSysTime(s, z)}} : TRUE

\* The ADMIN computation, start and acq being the administration and the
\* acquisition instant of s.
DecayFactorAdminFrom(s, start, acq) ==
  IF ~start.has_value THEN TimePointErrorOf(start)
  ELSE IF ~acq.has_value THEN TimePointErrorOf(acq)
  ELSE IF ~s.radionuclide_half_life.has
    THEN DecayCorrectionError("kMissingHalfLife")
  ELSE IF ~IsPositive(s.radionuclide_half_life.val)
    THEN DecayCorrectionError("kHalfLifeLessThanOrEqualToZero")
  ELSE Ok([expr |-> "exp(-ln2*t/half_life)",
           t |-> Normal(acq.value < start.value,
                        Abs(acq.value - start.value), 0),
           half_life |-> s.radionuclide_half_life.val])

ComputeDecayFactorAdmin(s, z) ==
  CHOOSE df \in {DecayFactorAdminFrom(s, start, acq) :
                   start \in {MakeRadiopharmaceuticalStartSysTime(s, z)},
                   acq \in {MakeAcquisitionSysTime(s, z)}} : TRUE

ComputeDecayFactor(s, z) ==
  IF ~ParseDicomDecayCorrection(s.decay_correction).has
    THEN DecayCorrectionError("kInvalidDecayCorrection")
  ELSE IF ParseDicomDecayCorrection(s.decay_correction).val = "kNone"
    THEN ComputeDecayFactorNone(s, z)
  ELSE IF ParseDicomDecayCorrection(s.decay_correction).val = "kStart"
    THEN Ok(DecayFactorOne)
  ELSE ComputeDecayFactorAdmin(s, z)

(***************************************************************************)
(* Inputs of the functions of one record                                   *)
(***************************************************************************)
AcquisitionDates ==
  { <<"2", "0", "2", "5", "0", "1", "0", "2">>,
    <<"2", "0", "2", "5", "0", "1", "3">>,
    <<"2", "0", "2", "5", "0", "2", "3", "1">>,
    <<"2", "0", "2", "4", "1", "0", "0", "6">> }

AcquisitionTimes ==
  { <<"1", "2", "3", "0", "0", "0">>,
    <<"1", "2">>,
    <<"1", "x">>,
    <<"0", "2", "4", "5", "0", "0">> }

TimezoneOffsets ==
  { NoString,
    <<"+", "0", "9", "3", "0">>,
    <<"0", "9", "3", "0">> }

StartDateTimes ==
  { <<"2", "0", "2", "5", "0", "1", "0", "2", "0", "0", "0", "0", "0", "0">>,
    <<"2", "0", "2", "5", "0", "1", "0", "2", "0", "0", "0", "0", "0", "0", "+", "0", "3", "3", "0">>,
    <<"2", "0", "2", "5", "0", "1", "0", "2", "0", "0", "0", "0", "0", "0", "+", "0", "9">>,
    <<"2", "0", "2", "5">>,
    <<"2", "0", "2", "5", "0", "1", "0", "2", "1", "2">>,
    <<"2", "0", "2", "5", "x">>,
    <<"2", "0", "2", "5", "0", "2", "3", "1", "0", "0", "0", "0", "0", "0">> }

DecayCorrections ==
  { NoString,
    <<"N", "O", "N", "E">>,
    <<"S", "T", "A", "R", "T", " ">>,
    <<"A", "D", "M", "I", "N", " ">>,
    <<"S", "T", "A", "R", "T">>,
    <<"A", "D", "M", "I", "N">>,
    <<"N", "O", "N", "E", " ">>,
    <<"n", "o", "n", "e">>,
    <<" ", "N", "O", "N", "E">> }

\* frame_reference_time, in milliseconds
FrameReferenceTimes == {NulloptDouble, Double(FALSE, 86219, 0)}

\* radionuclide_half_life, in seconds
HalfLives ==
  {NulloptDouble, Double(FALSE, 0, 0), Double(FALSE, 1223, 0),
   Double(TRUE, 1223, 0)}

\* The records MakeAcquisitionSysTime is called on.
AcquisitionSpects ==
  {[DefaultSpect EXCEPT !.acquisition_date = ad, !.acquisition_time = at,
                        !.timezone_offset_from_utc = vo] :
     ad \in AcquisitionDates, at \in AcquisitionTimes, vo \in TimezoneOffsets}

\* The records MakeRadiopharmaceuticalStartSysTime is called on.
StartSpects ==
  {[DefaultSpect EXCEPT !.radiopharmaceutical_start_date_time = dt,
                        !.timezone_offset_from_utc = vo] :
     dt \in StartDateTimes, vo \in TimezoneOffsets}

\* The records ComputeDecayFactor is called on.
DecaySpects ==
  {[DefaultSpect EXCEPT !.radiopharmaceutical_start_date_time = dt,
                        !.acquisition_date = ad,
                        !.acquisition_time = at,
                        !.timezone_offset_from_utc = vo,
                        !.decay_correction = dc,
                        !.frame_reference_time = frt,
                        !.radionuclide_half_life = hl] :
     dt \in {<<"2", "0", "2", "5", "0", "1", "0", "2", "0", "0", "0", "0",
               "0", "0">>, <<"2", "0", "2", "5">>},
     ad \in {<<"2", "0", "2", "5", "0", "1", "0", "2">>,
             <<"2", "0", "2", "5", "0", "2", "3", "1">>},
     at \in {<<"1", "2", "3", "0", "0", "0">>, <<"1", "2">>},
     vo \in TimezoneOffsets, dc \in DecayCorrections,
     frt \in FrameReferenceTimes, hl \in HalfLives}

(***************************************************************************)
(* The functions of one record as operations                               *)
(***************************************************************************)
InitSpect ==
  /\ pc = "call"
  /\ \/ fn = "MakeAcquisitionSysTime" /\ s_spect \in AcquisitionSpects
     \/ fn = "MakeRadiopharmaceuticalStartSysTime" /\ s_spect \in StartSpects
     \/ fn = "ComputeDecayFactor" /\ s_spect \in DecaySpects
  /\ tz \in TzArgs
  /\ result = NoResult
  /\ date_complete = NoDate
  /\ time_complete = NoTime
  /\ vdate = NoString
  /\ vtime = NoString
  /\ datetime = NoString
  /\ voffset = NoString
  /\ offset = 0
  /\ ParseUnused
  /\ SerialUnused
  /\ TiaUnused
  /\ AppUnused

ReturnSpect(r) ==
  /\ result' = r
  /\ pc' = "done"
  /\ UNCHANGED <<fn, offset, parseVars, serialVars, extVars, date_complete,
                 time_complete, vdate, vtime, datetime, voffset, tz>>

CallMakeAcquisitionSysTime ==
  /\ pc = "call"
  /\ fn = "MakeAcquisitionSysTime"
  /\ ReturnSpect(MakeAcquisitionSysTime(s_spect, tz))

CallMakeRadiopharmaceuticalStartSysTime ==
  /\ pc = "call"
  /\ fn = "MakeRadiopharmaceuticalStartSysTime"
  /\ ReturnSpect(MakeRadiopharmaceuticalStartSysTime(s_spect, tz))

CallComputeDecayFactor ==
  /\ pc = "call"
  /\ fn = "ComputeDecayFactor"
  /\ ReturnSpect(ComputeDecayFactor(s_spect, tz))

NextSpect ==
  \/ CallMakeAcquisitionSysTime
  \/ CallMakeRadiopharmaceuticalStartSysTime
  \/ CallComputeDecayFactor

SpecSpect == InitSpect /\ [][NextSpect]_vars

(***************************************************************************)
(* Properties of the functions of one record                               *)
(***************************************************************************)
\* C12: an error of MakeAcquisitionSysTime carries the id
\* kAcquisitionDateAndTime and an error of
\* MakeRadiopharmaceuticalStartSysTime the id
\* kRadiopharmaceuticalStartDateTime; in both, kFailedUtcOffset of the
\* underlying resolver is reported as kFailedTimezoneOffsetFromUtc and every
\* other error kind as it is; an instant is passed through.
C12_ErrorRemap ==
  /\ (pc = "done" /\ fn = "MakeAcquisitionSysTime") =>
       \A u \in {MakeSysTimeFromDicomDateAndTime(
                   s_spect.acquisition_date, s_spect.acquisition_time,
                   s_spect.timezone_offset_from_utc, tz)} :
         IF u.has_value THEN result = u
         ELSE /\ ~result.has_value
              /\ result.error.id = "kAcquisitionDateAndTime"
              /\ result.error.error =
                   IF u.error = "kFailedUtcOffset"
                     THEN "kFailedTimezoneOffsetFromUtc"
                     ELSE u.error
  /\ (pc = "done" /\ fn = "MakeRadiopharmaceuticalStartSysTime") =>
       \A u \in {MakeSysTimeFromDicomDateTime(
                   s_spect.radiopharmaceutical_start_date_time,
                   s_spect.timezone_offset_from_utc, tz)} :
         IF u.has_value THEN result = u
         ELSE /\ ~result.has_value
              /\ result.error.id = "kRadiopharmaceuticalStartDateTime"
              /\ result.error.error =
                   IF u.error = "kFailedUtcOffset"
                     THEN "kFailedTimezoneOffsetFromUtc"
                     ELSE u.error

\* The administration instant failed on the TimezoneOffsetFromUTC value.
C12_Witness ==
  /\ pc = "done"
  /\ fn = "MakeRadiopharmaceuticalStartSysTime"
  /\ MakeSysTimeFromDicomDateTime(
       s_spect.radiopharmaceutical_start_date_time,
       s_spect.timezone_offset_from_utc, tz).error = "kFailedUtcOffset"
  /\ ~result.has_value
  /\ result.error = [id |-> "kRadiopharmaceuticalStartDateTime",
                     error |-> "kFailedTimezoneOffsetFromUtc"]

\* C13: ComputeDecayFactor on "NONE" returns what the NONE computation
\* returns, on "START " the decay factor 1.0 whatever the other fields and
\* the time zone argument, on "ADMIN " what the ADMIN computation returns,
\* and on every other string kInvalidDecayCorrection.
C13_DecayDispatch ==
  (pc = "done" /\ fn = "ComputeDecayFactor") =>
    /\ s_spect.decay_correction = <<"N", "O", "N", "E">> =>
         result = ComputeDecayFactorNone(s_spect, tz)
    /\ s_spect.decay_correction = <<"S", "T", "A", "R", "T", " ">> =>
         result = Ok(DecayFactorOne)
    /\ s_spect.decay_correction = <<"A", "D", "M", "I", "N", " ">> =>
         result = ComputeDecayFactorAdmin(s_spect, tz)
    /\ s_spect.decay_correction
         \notin {<<"N", "O", "N", "E">>, <<"S", "T", "A", "R", "T", " ">>,
                 <<"A", "D", "M", "I", "N", " ">>} =>
         result = DecayCorrectionError("kInvalidDecayCorrection")

\* "START " gave 1.0 for a record without half-life, without offset and
\* with an incomplete time, and no time zone.
C13_Witness ==
  /\ pc = "done"
  /\ fn = "ComputeDecayFactor"
  /\ s_spect.decay_correction = <<"S", "T", "A", "R", "T", " ">>
  /\ tz = NullTz
  /\ s_spect.timezone_offset_from_utc = NoString
  /\ ~s_spect.radionuclide_half_life.has
  /\ s_spect.acquisition_time = <<"1", "2">>
  /\ result = Ok(DecayFactorOne)

(***************************************************************************)
(* The exponential-fit kernel (src/src/tia/exp_fit_functor.h)              *)
(*                                                                         *)
(* A double is a quotient [n, d] of integers in lowest terms with d >= 0:  *)
(* d = 0 denotes +infinity (n = 1), -infinity (n = -1) or a NaN (n = 0),   *)
(* as IEEE 754 division by zero gives them.  Arithmetic is exact: rounding *)
(* is left out.  std::log returns its value in units of ln 2, so that the  *)
(* logarithm of a power of two is an integer; the pixel values are powers  *)
(* of two, zero or negative.                                               *)
(***************************************************************************)
RECURSIVE Gcd(_, _)
Gcd(m, k) == IF k = 0 THEN m ELSE Gcd(k, m % k)

Sign(k) == IF k > 0 THEN 1 ELSE IF k < 0 THEN -1 ELSE 0

Quotient(m, k) ==
  IF k = 0 THEN [n |-> Sign(m), d |-> 0]
  ELSE [n |-> (Sign(k) * m) \div Gcd(Abs(m), Abs(k)),
        d |-> Abs(k) \div Gcd(Abs(m), Abs(k))]

FromInt(k) == Quotient(k, 1)
QuietNaN == Quotient(0, 0)
MinusInfinity == Quotient(-1, 0)

IsNaN(a) == a.d = 0 /\ a.n = 0

Negate(a) == [n |-> 0 - a.n, d |-> a.d]

Plus(a, b) ==
  IF a.d = 0 /\ b.d = 0
    THEN (IF a.n = b.n THEN a ELSE QuietNaN)
    ELSE Quotient(a.n * b.d + b.n * a.d, a.d * b.d)

Minus(a, b) == Plus(a, Negate(b))

Times(a, b) == Quotient(a.n * b.n, a.d * b.d)

Divide(a, b) == Times(a, Quotient(b.d, b.n))

\* a <= 0.0 and a >= 0.0: false of a NaN.
LessEqualZero(a) == ~IsNaN(a) /\ a.n <= 0
GreaterEqualZero(a) == ~IsNaN(a) /\ a.n >= 0

RECURSIVE Log2(_)
Log2(k) == IF k <= 1 THEN 0 ELSE 1 + Log2(k \div 2)

\* std::log, in units of ln 2.
Log(a) ==
  IF IsNaN(a) \/ a.n < 0 THEN QuietNaN
  ELSE IF a.n = 0 THEN MinusInfinity
  ELSE IF a.d = 0 THEN a
  ELSE FromInt(Log2(a.n) - Log2(a.d))

\* Sum of the first k elements of a sequence of doubles, in ascending order.
RECURSIVE Accumulate(_, _)
Accumulate(seq, k) ==
  IF k = 0 THEN FromInt(0) ELSE Plus(Accumulate(seq, k - 1), seq[k])

\* A default-constructed functor.
DefaultFunctor ==
  [num_time_points_ |-> 0,
   time_points_mean_s_ |-> FromInt(0),
   time_point_deviation_s_ |-> <<>>,
   slope_denominator_s2_ |-> FromInt(0)]

TimePointsMean(tps) ==
  Divide(Accumulate([i \in 1..Len(tps) |-> FromInt(tps[i])], Len(tps)),
         FromInt(Len(tps)))

TimePointDeviations(tps, mean) ==
  [i \in 1..Len(tps) |-> Minus(FromInt(tps[i]), mean)]

SumOfSquares(dev) ==
  Accumulate([i \in 1..Len(dev) |-> Times(dev[i], dev[i])], Len(dev))

SetTimePointsFromMean(tps, mean) ==
  [num_time_points_ |-> Len(tps),
   time_points_mean_s_ |-> mean,
   time_point_deviation_s_ |-> TimePointDeviations(tps, mean),
   slope_denominator_s2_ |-> SumOfSquares(TimePointDeviations(tps, mean))]

\* ExpFitFunctor::SetTimePoints: the members after the call.
SetTimePoints(tps) ==
  CHOOSE f \in {SetTimePointsFromMean(tps, mean) :
                  mean \in {TimePointsMean(tps)}} : TRUE

\* A pixel value returned by the functor: exp(exp_of * ln 2) / (over * ln 2).
\* The literal 0.0f is exp(-infinity) / 1.
ZeroPixel == [exp_of |-> MinusInfinity, over |-> FromInt(1)]

LogY(f, y) == [i \in 1..f.num_time_points_ |-> Log(y[i])]

LogYMean(f, logy) ==
  Divide(Accumulate(logy, f.num_time_points_), FromInt(f.num_time_points_))

SlopeNumerator(f, logy, logy_mean) ==
  Accumulate([i \in 1..f.num_time_points_ |->
                Times(f.time_point_deviation_s_[i], Minus(logy[i], logy_mean))],
             f.num_time_points_)

Slope(f, logy, logy_mean) ==
  Divide(SlopeNumerator(f, logy, logy_mean), f.slope_denominator_s2_)

ExpFitFromSlope(f, logy_mean, slope) ==
  IF GreaterEqualZero(slope) THEN ZeroPixel
  ELSE [exp_of |-> Minus(logy_mean, Times(slope, f.time_points_mean_s_)),
        over |-> Negate(slope)]

ExpFitFromLogY(f, logy) ==
  CHOOSE r \in {ExpFitFromSlope(f, logy_mean, Slope(f, logy, logy_mean)) :
                  logy_mean \in {LogYMean(f, logy)}} : TRUE

\* ExpFitFunctor::operator().
ExpFitFunctor(f, y) ==
  IF \E i \in 1..f.num_time_points_ : LessEqualZero(y[i]) THEN ZeroPixel
  ELSE ExpFitFromLogY(f, LogY(f, y))

\* What a returned pixel value is.
IsNaNPixel(o) ==
  \/ IsNaN(o.exp_of)
  \/ IsNaN(o.over)
  \/ (o.exp_of = MinusInfinity /\ o.over.n = 0)
  \/ (o.exp_of.d = 0 /\ o.exp_of.n = 1 /\ o.over.d = 0)

IsZeroPixel(o) ==
  /\ ~IsNaNPixel(o)
  /\ (o.exp_of = MinusInfinity \/ o.over.d = 0)

IsPositivePixel(o) == ~IsNaNPixel(o) /\ ~IsZeroPixel(o) /\ o.over.n >= 0

IsNegativePixel(o) == ~IsNaNPixel(o) /\ ~IsZeroPixel(o) /\ o.over.n < 0

(***************************************************************************)
(* The pipeline builder (src/src/tia/tia_pipeline.cc).  A filter is a      *)
(* record of what was set on it; an input is the pair of the vector of the *)
(* TiaFilters and the index of the filter whose output it is.              *)
(***************************************************************************)
NoFilters ==
  [file_readers |-> <<>>, scale_filters |-> <<>>, compose_filter |-> <<>>,
   functor_filter |-> [functor |-> DefaultFunctor, input |-> "none"]]

\* The composer input that takes the scale filter whatever the factor.
ComposeInputScaled(i, decay_factor) == <<"scale_filters", i>>

\* The input of channel i of the composer.
ComposeInput(i, decay_factor) ==
  IF decay_factor = FromInt(1) THEN <<"file_readers", i>>
  ELSE <<"scale_filters", i>>

\* PrepareTiaPipeline where every decay_factors[i] it reads exists.
PrepareTiaPipeline(fnames, tps, dfs) ==
  [file_readers |-> [i \in 1..Len(fnames) |-> [file_name |-> fnames[i]]],
   scale_filters |->
     [i \in 1..Len(fnames) |->
        [input |-> <<"file_readers", i>>, scale |-> dfs[i]]],
   compose_filter |-> [i \in 1..Len(fnames) |-> ComposeInput(i, dfs[i])],
   functor_filter |->
     [functor |-> SetTimePoints(tps), input |-> "compose_filter"]]

(***************************************************************************)
(* The kernel and the builder as operations                                *)
(***************************************************************************)
MaxTimePoints == 3
MaxImages == 3

TimePointSamples == {0, 6, 12}
PixelSamples ==
  {FromInt(-1), FromInt(0), Quotient(1, 2), FromInt(1), FromInt(2), FromInt(4)}
DecayFactorSamples == {FromInt(1), FromInt(2), Quotient(1, 2)}
FileName(i) == <<"i", "m", "g", DigitChar(i)>>
FileNamesInputs ==
  {[i \in 1..n |-> FileName(i)] : n \in 0..MaxImages}
    \cup {<<FileName(2), FileName(1)>>}

\* The time points and the pixel of ExpFitFunctorTest.Pixel, in seconds
\* for hours and with the pixel values divided by 1.25.
TestTimePoints == <<6, 12, 18, 24>>
TestPixel == <<FromInt(8), FromInt(4), FromInt(2), FromInt(1)>>

InitKernel ==
  /\ fn = "ExpFitFunctor"
  /\ \/ /\ time_points \in Strings(TimePointSamples, MaxTimePoints)
        /\ pixel_in \in [1..Len(time_points) -> PixelSamples]
     \/ /\ time_points = TestTimePoints
        /\ pixel_in = TestPixel
  /\ input_filenames = <<>>
  /\ decay_factors = <<>>
  /\ ndebug = FALSE

InitPipeline ==
  /\ fn = "PrepareTiaPipeline"
  /\ input_filenames \in FileNamesInputs
  /\ time_points \in Strings({0, 6}, MaxImages)
  /\ decay_factors \in Strings(DecayFactorSamples, MaxImages)
  /\ ndebug \in BOOLEAN
  /\ pixel_in = <<>>

InitTia ==
  /\ pc = "call"
  /\ (InitKernel \/ InitPipeline)
  /\ functor = DefaultFunctor
  /\ filters = NoFilters
  /\ pixel_out = ZeroPixel
  /\ offset = 0
  /\ ParseUnused
  /\ ResolveUnused
  /\ SerialUnused
  /\ SpectUnused
  /\ AppUnused

TiaUnchanged ==
  UNCHANGED <<fn, offset, parseVars, resolveVars, serialVars, spectVars,
              appVars, input_filenames, time_points, decay_factors, ndebug, pixel_in>>

CallSetTimePoints ==
  /\ pc = "call"
  /\ fn = "ExpFitFunctor"
  /\ functor' = SetTimePoints(time_points)
  /\ pc' = "configured"
  /\ UNCHANGED <<filters, pixel_out>>
  /\ TiaUnchanged

CallExpFitFunctor ==
  /\ pc = "configured"
  /\ fn = "ExpFitFunctor"
  /\ pixel_out' = ExpFitFunctor(functor, pixel_in)
  /\ pc' = "done"
  /\ UNCHANGED <<functor, filters>>
  /\ TiaUnchanged

\* The assert holds or is compiled out, and every decay factor read exists.
CallPrepareTiaPipeline ==
  /\ pc = "call"
  /\ fn = "PrepareTiaPipeline"
  /\ ndebug \/ Len(decay_factors) = Len(input_filenames)
  /\ Len(decay_factors) >= Len(input_filenames)
  /\ filters' = PrepareTiaPipeline(input_filenames, time_points, decay_factors)
  /\ pc' = "done"
  /\ UNCHANGED <<functor, pixel_out>>
  /\ TiaUnchanged

\* assert(decay_factors.size() == num_images) fails.
AssertPrepareTiaPipeline ==
  /\ pc = "call"
  /\ fn = "PrepareTiaPipeline"
  /\ ~ndebug
  /\ Len(decay_factors) # Len(input_filenames)
  /\ pc' = "abort"
  /\ UNCHANGED <<functor, filters, pixel_out>>
  /\ TiaUnchanged

\* The assert is compiled out and decay_factors[i] is read past the end:
\* the read gives any value, or the process stops.
OverreadPrepareTiaPipeline ==
  /\ pc = "call"
  /\ fn = "PrepareTiaPipeline"
  /\ ndebug
  /\ Len(decay_factors) < Len(input_filenames)
  /\ \/ /\ \E past \in [1..(Len(input_filenames) - Len(decay_factors)) ->
                         DecayFactorSamples] :
             filters' = PrepareTiaPipeline(input_filenames, time_points,
                                           decay_factors \o past)
        /\ pc' = "done"
     \/ /\ pc' = "crash"
        /\ UNCHANGED filters
  /\ UNCHANGED <<functor, pixel_out>>
  /\ TiaUnchanged

NextTia ==
  \/ CallSetTimePoints
  \/ CallExpFitFunctor
  \/ CallPrepareTiaPipeline
  \/ AssertPrepareTiaPipeline
  \/ OverreadPrepareTiaPipeline

SpecTia == InitTia /\ [][NextTia]_vars

(***************************************************************************)
(* Properties of the kernel and the builder                                *)
(***************************************************************************)
\* C14: the functor returns 0 if any y_i <= 0; otherwise 0 if the
\* least-squares slope of ln(y_i) against t_i is >= 0; otherwise
\* exp(intercept) / (-slope), which is strictly positive; so the result is
\* never negative.
C14_KernelGuards ==
  (pc = "done" /\ fn = "ExpFitFunctor") =>
    /\ ~IsNegativePixel(pixel_out)
    /\ IF \E i \in 1..Len(pixel_in) : LessEqualZero(pixel_in[i])
         THEN pixel_out = ZeroPixel
         ELSE \A logy_mean \in {LogYMean(functor, LogY(functor, pixel_in))} :
                \A slope \in {Slope(functor, LogY(functor, pixel_in),
                                    logy_mean)} :
                  IF GreaterEqualZero(slope)
                    THEN pixel_out = ZeroPixel
                    ELSE /\ pixel_out.exp_of =
                              Minus(logy_mean,
                                    Times(slope, functor.time_points_mean_s_))
                         /\ pixel_out.over = Negate(slope)
                         /\ IsPositivePixel(pixel_out)

\* C28: every pipeline built through PrepareTiaPipeline has a kernel
\* configured with N >= 2 time points that are not all equal, so that the
\* denominator of the slope (the sum of the squared deviations of the time
\* points from their mean) by which a pixel evaluation divides is strictly
\* positive.
C28_NoDivisionByZero ==
  (pc = "done" /\ fn = "PrepareTiaPipeline") =>
    /\ filters.functor_filter.functor.num_time_points_ >= 2
    /\ \E i, j \in 1..Len(time_points) : time_points[i] # time_points[j]
    /\ filters.functor_filter.functor.slope_denominator_s2_.d # 0
    /\ filters.functor_filter.functor.slope_denominator_s2_.n > 0

\* C15: PrepareTiaPipeline returns no pipeline whose kernel has a number of
\* time points different from the number of composer channels, or that has
\* fewer than 2 channels: it asserts that its three arguments have the same
\* length N >= 2.
C15_ArityCheck ==
  (pc = "done" /\ fn = "PrepareTiaPipeline") =>
    /\ Len(input_filenames) = Len(time_points)
    /\ Len(input_filenames) = Len(decay_factors)
    /\ filters.functor_filter.functor.num_time_points_
         = Len(filters.compose_filter)
    /\ Len(filters.compose_filter) >= 2

\* C16: in the pipeline PrepareTiaPipeline returns, reader i has file name
\* input_filenames[i]; composer input i is the output of reader i when
\* decay_factors[i] is exactly 1.0 and otherwise the output of scale filter
\* i, whose input is reader i and whose scale is decay_factors[i]; the
\* kernel holds the deviation of time_points[i] from the mean at index i.
C16_ChannelBinding ==
  (pc = "done" /\ fn = "PrepareTiaPipeline") =>
    /\ Len(filters.file_readers) = Len(input_filenames)
    /\ Len(filters.compose_filter) = Len(input_filenames)
    /\ \A i \in 1..Len(input_filenames) :
         /\ filters.file_readers[i].file_name = input_filenames[i]
         /\ i <= Len(decay_factors) =>
              IF decay_factors[i] = FromInt(1)
                THEN filters.compose_filter[i] = <<"file_readers", i>>
                ELSE /\ filters.compose_filter[i] = <<"scale_filters", i>>
                     /\ filters.scale_filters[i] =
                          [input |-> <<"file_readers", i>>,
                           scale |-> decay_factors[i]]
    /\ filters.functor_filter.input = "compose_filter"
    /\ filters.functor_filter.functor.num_time_points_ = Len(time_points)
    /\ \A i \in 1..Len(time_points) :
         filters.functor_filter.functor.time_point_deviation_s_[i] =
           Minus(FromInt(time_points[i]),
                 filters.functor_filter.functor.time_points_mean_s_)
    /\ Len(time_points) > 0 =>
         Times(filters.functor_filter.functor.time_points_mean_s_,
               FromInt(Len(time_points)))
           = Accumulate([i \in 1..Len(time_points) |-> FromInt(time_points[i])],
                        Len(time_points))

\* Three images, the first with decay factor 1.0 and the second with 2.0,
\* and three different time points.
C16_Witness ==
  /\ pc = "done"
  /\ fn = "PrepareTiaPipeline"
  /\ input_filenames = <<FileName(1), FileName(2), FileName(3)>>
  /\ decay_factors = <<FromInt(1), FromInt(2), Quotient(1, 2)>>
  /\ time_points = <<0, 6, 0>>
  /\ filters.compose_filter[1] = <<"file_readers", 1>>
  /\ filters.compose_filter[2] = <<"scale_filters", 2>>
  /\ filters.scale_filters[2].scale = FromInt(2)

(***************************************************************************)
(* The command line of spider_tia (src/apps/spider_tia.cc).  A char* is a  *)
(* sequence of characters; the character at index j of the code is at     *)
(* index j + 1, and the terminating '\0' is the position after the last.   *)
(***************************************************************************)
DefaultParsedArguments ==
  [overwrite |-> FALSE, tz_names |-> <<>>, input_filenames |-> <<>>]

\* What ParseArguments gives: the ParsedArguments it returns when exit is
\* "none", and otherwise the status it called std::exit with.
Returned(out) == [exit |-> "none", out |-> out, cout |-> <<>>, cerr |-> <<>>]
Exited(status, to_cout, to_cerr) ==
  [exit |-> status, out |-> DefaultParsedArguments,
   cout |-> to_cout, cerr |-> to_cerr]

\* The index the loop is left with after "--", without consuming it.
AfterDoubleDashKept(i) == i

\* The index the loop is left with after "--".
AfterDoubleDash(i) == i + 1

\* out.input_filenames.assign(argv + i, argv + argc).
AssignInputFilenames(av, i, out) ==
  Returned([out EXCEPT !.input_filenames = SubSeq(av, i + 1, Len(av))])

RECURSIVE ParseArgumentsFrom(_, _, _)
RECURSIVE ParseCluster(_, _, _, _)
\* The inner loop of ParseArguments at character j of argv[i].
ParseCluster(av, i, j, out) ==
  IF j >= Len(av[i + 1]) THEN ParseArgumentsFrom(av, i + 1, out)
  ELSE IF av[i + 1][j + 1] = "f"
    THEN ParseCluster(av, i, j + 1, [out EXCEPT !.overwrite = TRUE])
  ELSE IF av[i + 1][j + 1] = "V"
    THEN Exited("EXIT_SUCCESS", <<"Spider SPIDER_VERSION">>, <<>>)
  ELSE IF av[i + 1][j + 1] = "z"
    THEN IF j + 1 < Len(av[i + 1])
           THEN ParseArgumentsFrom(av, i + 1,
                  [out EXCEPT !.tz_names =
                     Append(@, SubSeq(av[i + 1], j + 2, Len(av[i + 1])))])
         ELSE IF i + 1 = Len(av)
           THEN Exited("EXIT_FAILURE", <<>>,
                       <<"option requires an argument", "usage">>)
         ELSE ParseArgumentsFrom(av, i + 2,
                [out EXCEPT !.tz_names = Append(@, av[i + 2])])
  ELSE Exited("EXIT_FAILURE", <<>>, <<"unknown option", "usage">>)

\* The outer loop of ParseArguments at argv[i].
ParseArgumentsFrom(av, i, out) ==
  IF i >= Len(av) THEN AssignInputFilenames(av, i, out)
  ELSE IF av[i + 1] = <<"-", "-">>
    THEN AssignInputFilenames(av, AfterDoubleDash(i), out)
  ELSE IF Len(av[i + 1]) = 0 \/ av[i + 1][1] # "-" \/ Len(av[i + 1]) = 1
    THEN AssignInputFilenames(av, i, out)
  ELSE ParseCluster(av, i, 1, out)

\* ParseArguments(argc, argv) with argc = Len(av).
ParseArguments(av) == ParseArgumentsFrom(av, 1, DefaultParsedArguments)

(***************************************************************************)
(* ParseArguments as an operation                                          *)
(***************************************************************************)
MaxArgs == 4

ProgramName == <<"s", "p", "i", "d", "e", "r", "_", "t", "i", "a">>

ArgumentSamples ==
  {<<"-", "f">>, <<"-", "V">>, <<"-", "z">>, <<"-", "z", "A">>,
   <<"-", "f", "z", "B">>, <<"-", "f", "z">>, <<"-", "-">>, <<"-">>,
   <<"a">>, <<"-", "x">>, <<>>}

ArgvInputs == {<<ProgramName>> \o rest : rest \in Strings(ArgumentSamples, MaxArgs)}

InitArguments ==
  /\ pc = "call"
  /\ fn = "ParseArguments"
  /\ argv \in ArgvInputs
  /\ args = DefaultParsedArguments
  /\ exit_status = "none"
  /\ cout = <<>>
  /\ cerr = <<>>
  /\ cin = <<>>
  /\ cin_read = FALSE
  /\ tz_current = "nullptr"
  /\ time_zones = <<>>
  /\ tia_nii = "absent"
  /\ image_file_writer = "none"
  /\ administration_times = <<>>
  /\ acquisition_times = <<>>
  /\ hours_since_administration = <<>>
  /\ offset = 0
  /\ ParseUnused
  /\ ResolveUnused
  /\ SerialUnused
  /\ SpectUnused
  /\ TiaUnused

ArgumentsUnchanged ==
  UNCHANGED <<fn, offset, parseVars, resolveVars, serialVars, spectVars,
              tiaVars, argv, cin, cin_read, tz_current, time_zones, tia_nii, image_file_writer,
              administration_times, acquisition_times,
              hours_since_administration>>

\* ParseArguments returns.
ReturnParseArguments(parsed) ==
  /\ parsed.exit = "none"
  /\ args' = parsed.out
  /\ pc' = "done"
  /\ UNCHANGED <<exit_status, cout, cerr>>
  /\ ArgumentsUnchanged

\* ParseArguments calls std::exit.
ExitParseArguments(parsed) ==
  /\ parsed.exit # "none"
  /\ exit_status' = parsed.exit
  /\ cout' = cout \o parsed.cout
  /\ cerr' = cerr \o parsed.cerr
  /\ pc' = "exit"
  /\ UNCHANGED args
  /\ ArgumentsUnchanged

CallParseArguments ==
  /\ pc = "call"
  /\ fn = "ParseArguments"
  /\ ReturnParseArguments(ParseArguments(argv))

CallParseArgumentsExit ==
  /\ pc = "call"
  /\ fn = "ParseArguments"
  /\ ExitParseArguments(ParseArguments(argv))

NextArguments == CallParseArguments \/ CallParseArgumentsExit

SpecArguments == InitArguments /\ [][NextArguments]_vars

(***************************************************************************)
(* Properties of ParseArguments                                            *)
(***************************************************************************)
\* POSIX getopts with the option string "fVz:", called until it reports the
\* end of the options: the options it reports in order, each with its
\* OPTARG, "?" for an unknown letter or a missing option-argument, and the
\* index of the first operand.  optind is the index of the argument under
\* scan and p the position of the next option letter in it (1 before the
\* argument has been looked at).
RECURSIVE Getopts(_, _, _, _)
Getopts(av, optind, p, found) ==
  IF optind > Len(av) THEN [options |-> found, operands |-> optind]
  ELSE IF p = 1 /\ av[optind] = <<"-", "-">>
    THEN [options |-> found, operands |-> optind + 1]
  ELSE IF p = 1 /\ (Len(av[optind]) < 2 \/ av[optind][1] # "-")
    THEN [options |-> found, operands |-> optind]
  ELSE IF p = 1 THEN Getopts(av, optind, 2, found)
  ELSE IF p > Len(av[optind]) THEN Getopts(av, optind + 1, 1, found)
  ELSE IF av[optind][p] \in {"f", "V"}
    THEN Getopts(av, optind, p + 1,
                 Append(found, [name |-> av[optind][p], optarg |-> <<>>]))
  ELSE IF av[optind][p] = "z" /\ p < Len(av[optind])
    THEN Getopts(av, optind + 1, 1,
                 Append(found, [name |-> "z",
                                optarg |-> SubSeq(av[optind], p + 1,
                                                  Len(av[optind]))]))
  ELSE IF av[optind][p] = "z" /\ optind < Len(av)
    THEN Getopts(av, optind + 2, 1,
                 Append(found, [name |-> "z", optarg |-> av[optind + 1]]))
  ELSE Getopts(av, optind, p + 1,
               Append(found, [name |-> "?", optarg |-> <<>>]))

\* The options getopts reports for the arguments after the program name.
GetoptsOf(av) == Getopts(av, 2, 1, <<>>)

\* Whether a loop over the options that stops the program at -V and at "?"
\* stops it, and at which of the two.
FirstStop(options) ==
  IF \E k \in 1..Len(options) : options[k].name \in {"V", "?"}
    THEN options[CHOOSE k \in 1..Len(options) :
                   /\ options[k].name \in {"V", "?"}
                   /\ \A h \in 1..(k - 1) : options[h].name \notin {"V", "?"}].name
    ELSE "none"

RECURSIVE OptionArguments(_, _)
OptionArguments(options, k) ==
  IF k = 0 THEN <<>>
  ELSE IF options[k].name = "z"
    THEN Append(OptionArguments(options, k - 1), options[k].optarg)
  ELSE OptionArguments(options, k - 1)

\* C20: ParseArguments does what a loop over POSIX getopts "fVz:" does: -V
\* exits with success, an unknown letter or a -z without argument exits
\* with failure, and otherwise overwrite is set when -f was found, tz_names
\* are the arguments of the -z options in order ("-zX" and "-z X" alike,
\* also at the end of a cluster), and input_filenames are the operands:
\* what follows "--", or the first "-" or argument without a leading '-'
\* and everything after it.
C20_Getopts ==
  (pc \in {"done", "exit"} /\ fn = "ParseArguments") =>
    \A g \in {GetoptsOf(argv)} :
      \A stop \in {FirstStop(g.options)} :
        /\ stop = "V" => (pc = "exit" /\ exit_status = "EXIT_SUCCESS")
        /\ stop = "?" => (pc = "exit" /\ exit_status = "EXIT_FAILURE")
        /\ stop = "none" =>
             /\ pc = "done"
             /\ exit_status = "none"
             /\ args.overwrite
                  = (\E k \in 1..Len(g.options) : g.options[k].name = "f")
             /\ args.tz_names = OptionArguments(g.options, Len(g.options))
             /\ args.input_filenames = SubSeq(argv, g.operands, Len(argv))

\* "-fz a -- -": overwrite, the zone name a, and the one operand "-".
C20_Witness ==
  /\ pc = "done"
  /\ fn = "ParseArguments"
  /\ argv = <<ProgramName, <<"-", "f", "z">>, <<"a">>, <<"-", "-">>, <<"-">>>>
  /\ args = [overwrite |-> TRUE, tz_names |-> <<<<"a">>>>,
             input_filenames |-> <<<<"-">>>>]

(***************************************************************************)
(* The ToString functions of the errors (src/src/spect.h).  A string built *)
(* by concatenation is the sequence of its parts.                          *)
(***************************************************************************)
ToStringTimePointError(e) ==
  CASE e = "kFailedDate" -> "failed to parse DICOM Date"
    [] e = "kFailedTime" -> "failed to parse DICOM Time"
    [] e = "kFailedUtcOffset" ->
         "failed to parse UTC offset (expected \"{+,-}HHMM\")"
    [] e = "kFailedTimezoneOffsetFromUtc" ->
         "failed to parse DICOM attribute: TimezoneOffsetFromUtc"
    [] e = "kFailedDateTimeExcludingUtcOffset" ->
         "failed to parse DICOM Date Time components (not including UTC offset)"
    [] e = "kFailedUtcOffsetInDateTime" ->
         "failed to parse UTC offset suffix of DICOM Date Time"
    [] e = "kIncompleteDate" -> "incomplete date; missing month or day"
    [] e = "kIncompleteTime" ->
         "incomplete time; missing hour, minute or second"
    [] e = "kMissingTimeZone" -> "missing required time zone"
    [] e = "kInvalidDate" -> "invalid date"
    [] e = "kNonexistentLocalTime" -> "nonexistent local time"
    [] OTHER -> "unknown error"

ToStringTimePointId(id) ==
  CASE id = "kRadiopharmaceuticalStartDateTime" ->
         "radiopharmaceutical start date time"
    [] id = "kAcquisitionDateAndTime" -> "acquisition date and time"
    [] id = "kSeriesDateAndTime" -> "series date and time"
    [] OTHER -> "unknown"

ToStringTimePointErrorWithId(e) ==
  <<"failed to make time point for ", ToStringTimePointId(e.id), ": ",
    ToStringTimePointError(e.error)>>

ToStringDecayCorrectionError(e) ==
  CASE e = "kMissingFrameReferenceTime" ->
         "missing DICOM attribute: FrameReferenceTime"
    [] e = "kMissingHalfLife" ->
         "missing DICOM attribute: RadionuclideHalfLife"
    [] e = "kInvalidDecayCorrection" ->
         "invalid value for DICOM attribute: DecayCorrection"
    [] e = "kHalfLifeLessThanOrEqualToZero" ->
         "value <= 0 for DICOM attribute: RadionuclideHalfLife"
    [] e = "kUnreachable" -> "you found a bug"
    [] OTHER -> "unknown error"

\* ToString of the std::variant: std::visit over the two alternatives.
ToStringVariant(e) ==
  IF e.alt = "TimePointErrorWithId"
    THEN ToStringTimePointErrorWithId(e)
    ELSE <<ToStringDecayCorrectionError(e.error)>>

(***************************************************************************)
(* main of spider_tia (src/apps/spider_tia.cc), one action per stretch of  *)
(* it between two places where it can return.  cerr holds the diagnostics  *)
(* and the warnings; the lines of spider::Log() are left out.  Standard    *)
(* input is not a terminal.                                                *)
(***************************************************************************)
ZoneName(z) ==
  CASE z = "Australia/Adelaide" ->
         <<"A", "u", "s", "t", "r", "a", "l", "i", "a", "/",
           "A", "d", "e", "l", "a", "i", "d", "e">>
    [] z = "America/Vancouver" ->
         <<"A", "m", "e", "r", "i", "c", "a", "/",
           "V", "a", "n", "c", "o", "u", "v", "e", "r">>

\* tz::locate_zone: the zone of that name; has_value is false where it
\* throws std::runtime_error.
LocateZone(name) ==
  IF \E z \in Zones : ZoneName(z) = name
    THEN Ok(CHOOSE z \in Zones : ZoneName(z) = name)
    ELSE Unexpected("cannot locate zone")

\* The zones of main where every record takes the first zone named.
AssignTimeZonesFirst(tz_names, n, current) ==
  IF tz_names = <<>> THEN Ok([i \in 1..n |-> current])
  ELSE IF \E k \in 1..Len(tz_names) : ~LocateZone(tz_names[k]).has_value
    THEN Unexpected("cannot locate zone")
  ELSE Ok([i \in 1..n |-> LocateZone(tz_names[1]).value])

\* The vector time_zones of main for n image arguments; has_value is false
\* where locate_zone throws.
AssignTimeZones(tz_names, n, current) ==
  IF tz_names = <<>> THEN Ok([i \in 1..n |-> current])
  ELSE IF Len(tz_names) = 1
    THEN (IF LocateZone(tz_names[1]).has_value
            THEN Ok([i \in 1..n |-> LocateZone(tz_names[1]).value])
            ELSE Unexpected("cannot locate zone"))
  ELSE IF \E k \in 1..Len(tz_names) : ~LocateZone(tz_names[k]).has_value
    THEN Unexpected("cannot locate zone")
  ELSE Ok([k \in 1..Len(tz_names) |-> LocateZone(tz_names[k]).value])

\* Whether a record has a date or time that is read in the time zone.
UsesTimeZone(s) ==
  /\ s.timezone_offset_from_utc = NoString
  /\ FindFirstOf(s.radiopharmaceutical_start_date_time, {"+", "-"}) = 0

\* A variant of the pass that looks at the acquisition time first.
RecordFromAcquisitionFirst(adm, acq, df) ==
  IF ~acq.has_value
    THEN [ok |-> FALSE, error |-> ToStringTimePointErrorWithId(acq.error),
          administration_time |-> 0, acquisition_time |-> 0,
          decay_factor |-> DecayFactorOne]
  ELSE IF ~adm.has_value
    THEN [ok |-> FALSE, error |-> ToStringTimePointErrorWithId(adm.error),
          administration_time |-> 0, acquisition_time |-> 0,
          decay_factor |-> DecayFactorOne]
  ELSE IF ~df.has_value
    THEN [ok |-> FALSE, error |-> ToStringVariant(df.error),
          administration_time |-> 0, acquisition_time |-> 0,
          decay_factor |-> DecayFactorOne]
  ELSE [ok |-> TRUE, error |-> "none", administration_time |-> adm.value,
        acquisition_time |-> acq.value, decay_factor |-> df.value]

\* One pass of the loop over the records, given what the three functions
\* returned for the record: the text of the error line, or the values.
RecordFrom(adm, acq, df) ==
  IF ~adm.has_value
    THEN [ok |-> FALSE, error |-> ToStringTimePointErrorWithId(adm.error),
          administration_time |-> 0, acquisition_time |-> 0,
          decay_factor |-> DecayFactorOne]
  ELSE IF ~acq.has_value
    THEN [ok |-> FALSE, error |-> ToStringTimePointErrorWithId(acq.error),
          administration_time |-> 0, acquisition_time |-> 0,
          decay_factor |-> DecayFactorOne]
  ELSE IF ~df.has_value
    THEN [ok |-> FALSE, error |-> ToStringVariant(df.error),
          administration_time |-> 0, acquisition_time |-> 0,
          decay_factor |-> DecayFactorOne]
  ELSE [ok |-> TRUE, error |-> "none", administration_time |-> adm.value,
        acquisition_time |-> acq.value, decay_factor |-> df.value]

ProcessRecord(s, z) ==
  CHOOSE r \in {RecordFrom(adm, acq, df) :
                  adm \in {MakeRadiopharmaceuticalStartSysTime(s, z)},
                  acq \in {MakeAcquisitionSysTime(s, z)},
                  df \in {ComputeDecayFactor(s, z)}} : TRUE

ProcessRecords(xs, zones) ==
  [i \in 1..Len(xs) |-> ProcessRecord(xs[i], zones[i])]

\* The same where only the first record is looked at.
FirstFailureFirstOnly(rs) ==
  IF Len(rs) > 0 /\ ~rs[1].ok THEN 1 ELSE 0

\* The index of the record at which the loop returns, or 0.
FirstFailure(rs) ==
  IF \E i \in 1..Len(rs) : ~rs[i].ok
    THEN CHOOSE i \in 1..Len(rs) :
           ~rs[i].ok /\ \A k \in 1..(i - 1) : rs[k].ok
    ELSE 0

\* The warnings of the loop for the records 1..n.
RECURSIVE ZoneWarnings(_, _, _)
ZoneWarnings(xs, zones, n) ==
  IF n = 0 THEN <<>>
  ELSE IF UsesTimeZone(xs[n])
    THEN Append(ZoneWarnings(xs, zones, n - 1),
                <<"assuming time zone", n, zones[n]>>)
  ELSE ZoneWarnings(xs, zones, n - 1)

\* The same where the comparison starts one element late.
AdministrationWarningFromThird(times) ==
  IF \E i \in 3..Len(times) : times[i] # times[1]
    THEN <<"administration date time differs for two or more SPECTs">>
    ELSE <<>>

\* std::all_of over administration_times.begin() + 1 .. end().
AdministrationWarning(times) ==
  IF \E i \in 2..Len(times) : times[i] # times[1]
    THEN <<"administration date time differs for two or more SPECTs">>
    ELSE <<>>

\* The lambda of std::transform: the delay from administration to
\* acquisition.
HoursSinceAdministration(acquisition_time, administration_time) ==
  Divide(FromInt(acquisition_time - administration_time), FromInt(60 * 60))

\* The test on the number of image arguments that lets one image pass.
TooFewImagesOne(parsed_args) == Len(parsed_args.input_filenames) < 1

\* args.input_filenames.size() < 2.
TooFewImages(parsed_args) == Len(parsed_args.input_filenames) < 2

\* args.tz_names.size() > 1 && args.tz_names.size() != args.input_filenames.size().
TimeZoneCountMismatch(parsed_args) ==
  /\ Len(parsed_args.tz_names) > 1
  /\ Len(parsed_args.tz_names) # Len(parsed_args.input_filenames)

(***************************************************************************)
(* The inputs of spider_tia                                                *)
(***************************************************************************)
MaxOptions == 3

Image(i) == <<"i", "m", "g", DigitChar(i)>>

OptionSamples ==
  {<<"-", "f">>,
   <<"-", "z">> \o ZoneName("Australia/Adelaide"),
   <<"-", "z">> \o ZoneName("America/Vancouver"),
   <<"-", "z", "M", "a", "r", "s">>, <<"-", "V">>}

\* Options, then image arguments.
DriverArgvInputs ==
  {<<ProgramName>> \o options \o [i \in 1..n |-> Image(i)] :
     options \in Strings(OptionSamples, MaxOptions), n \in 0..MaxImages}

\* A record on standard input: administered at 2025-01-02 00:00 with the
\* given UTC offset suffix, acquired on the given day at the given time.
DriverSpect(suffix, ad, at, vo, dc) ==
  [DefaultSpect EXCEPT
     !.radiopharmaceutical_start_date_time =
        <<"2", "0", "2", "5", "0", "1", "0", "2", "0", "0", "0", "0", "0",
          "0">> \o suffix,
     !.acquisition_date = ad,
     !.acquisition_time = at,
     !.timezone_offset_from_utc = vo,
     !.decay_correction = dc]

Jan2 == <<"2", "0", "2", "5", "0", "1", "0", "2">>
Jan3 == <<"2", "0", "2", "5", "0", "1", "0", "3">>
SixOClock == <<"0", "6", "0", "0", "0", "0">>
HalfPastSeven == <<"0", "7", "3", "0", "0", "0">>
StartCorrection == <<"S", "T", "A", "R", "T", " ">>

StdinSpects ==
  {<<>>,
   <<DriverSpect(<<>>, Jan2, SixOClock, <<>>, StartCorrection)>>,
   <<DriverSpect(<<>>, Jan2, SixOClock, <<>>, StartCorrection),
     DriverSpect(<<>>, Jan3, HalfPastSeven, <<>>, StartCorrection)>>,
   <<DriverSpect(<<>>, Jan2, SixOClock, <<>>, StartCorrection),
     DriverSpect(<<>>, Jan2, SixOClock, <<>>, StartCorrection)>>,
   <<DriverSpect(<<"+", "0", "0", "0", "0">>, Jan2, SixOClock, <<>>,
                 StartCorrection),
     DriverSpect(<<"+", "0", "0", "0", "0">>, Jan3, SixOClock, <<>>,
                 StartCorrection)>>,
   <<DriverSpect(<<>>, Jan2, SixOClock, <<"+", "0", "9", "3", "0">>,
                 StartCorrection),
     DriverSpect(<<"+", "0", "0", "0", "0">>, Jan2, HalfPastSeven,
                 <<"+", "0", "9", "3", "0">>, StartCorrection)>>,
   <<DriverSpect(<<>>, Jan2, SixOClock, <<>>, StartCorrection),
     DriverSpect(<<>>, Jan2, <<"0", "6">>, <<>>, StartCorrection)>>,
   <<DriverSpect(<<>>, Jan2, SixOClock, <<>>, StartCorrection),
     DriverSpect(<<>>, Jan3, SixOClock, <<>>, <<"S", "T", "A", "R", "T">>)>>,
   <<DriverSpect(<<>>, Jan2, SixOClock, <<>>, StartCorrection),
     DriverSpect(<<>>, Jan2, HalfPastSeven, <<>>, StartCorrection),
     DriverSpect(<<>>, Jan3, SixOClock, <<>>, StartCorrection)>>,
   <<DriverSpect(<<"+", "9">>, Jan2, <<"0", "6">>, <<>>,
                 <<"S", "T", "A", "R", "T">>),
     DriverSpect(<<>>, Jan2, SixOClock, <<>>, StartCorrection)>>,
   <<DriverSpect(<<>>, Jan2, SixOClock, <<>>, <<"S", "T", "A", "R", "T">>),
     DriverSpect(<<"+", "9">>, Jan2, <<"0", "6">>, <<>>, StartCorrection)>>}

\* What spider_dicom_dump writes for these records.
StdinInputs == {WriteSpects(xs).os : xs \in StdinSpects}

(***************************************************************************)
(* main as operations                                                      *)
(***************************************************************************)
InitMain ==
  /\ pc = "main"
  /\ fn = "main"
  /\ argv \in DriverArgvInputs
  /\ tia_nii \in {"absent", "present"}
  /\ image_file_writer = "none"
  /\ args = DefaultParsedArguments
  /\ exit_status = "none"
  /\ cout = <<>>
  /\ cerr = <<>>
  /\ cin = <<>>
  /\ cin_read = FALSE
  /\ tz_current = "nullptr"
  /\ time_zones = <<>>
  /\ administration_times = <<>>
  /\ acquisition_times = <<>>
  /\ hours_since_administration = <<>>
  /\ input_filenames = <<>>
  /\ time_points = <<>>
  /\ decay_factors = <<>>
  /\ ndebug = FALSE
  /\ functor = <<>>
  /\ filters = <<>>
  /\ pixel_in = <<>>
  /\ pixel_out = <<>>
  /\ offset = 0
  /\ ParseUnused
  /\ ResolveUnused
  /\ SerialUnused
  /\ SpectUnused

LibraryUnchanged ==
  UNCHANGED <<fn, offset, parseVars, resolveVars, spectVars, os, warnings,
              spects_read, ndebug, functor, filters, pixel_in, pixel_out>>

\* argc == 1.
MainUsage ==
  /\ pc = "main"
  /\ Len(argv) = 1
  /\ exit_status' = "EXIT_FAILURE"
  /\ cerr' = cerr \o <<"usage">>
  /\ pc' = "exit"
  /\ UNCHANGED <<argv, args, cout, cin, cin_read, tz_current, time_zones,
                 tia_nii, image_file_writer, administration_times, acquisition_times,
                 hours_since_administration, spects, input_filenames,
                 time_points, decay_factors>>
  /\ LibraryUnchanged

MainParseArguments ==
  /\ pc = "main"
  /\ Len(argv) # 1
  /\ \E parsed \in {ParseArguments(argv)} :
       /\ parsed.exit = "none"
       /\ args' = parsed.out
  /\ pc' = "parsed"
  /\ UNCHANGED <<argv, exit_status, cout, cerr, cin, cin_read, tz_current,
                 time_zones, tia_nii, image_file_writer, administration_times,
                 acquisition_times, hours_since_administration, spects,
                 input_filenames, time_points, decay_factors>>
  /\ LibraryUnchanged

\* ParseArguments calls std::exit.
MainParseArgumentsExit ==
  /\ pc = "main"
  /\ Len(argv) # 1
  /\ \E parsed \in {ParseArguments(argv)} :
       /\ parsed.exit # "none"
       /\ exit_status' = parsed.exit
       /\ cout' = cout \o parsed.cout
       /\ cerr' = cerr \o parsed.cerr
  /\ pc' = "exit"
  /\ UNCHANGED <<argv, args, cin, cin_read, tz_current, time_zones, tia_nii, image_file_writer,
                 administration_times, acquisition_times,
                 hours_since_administration, spects, input_filenames,
                 time_points, decay_factors>>
  /\ LibraryUnchanged

MainTooFewImages ==
  /\ pc = "parsed"
  /\ TooFewImages(args)
  /\ exit_status' = "EXIT_FAILURE"
  /\ cerr' = cerr \o <<"you must specify at least 2 image arguments">>
  /\ pc' = "exit"
  /\ UNCHANGED <<argv, args, cout, cin, cin_read, tz_current, time_zones,
                 tia_nii, image_file_writer, administration_times, acquisition_times,
                 hours_since_administration, spects, input_filenames,
                 time_points, decay_factors>>
  /\ LibraryUnchanged

MainTimeZoneCount ==
  /\ pc = "parsed"
  /\ ~TooFewImages(args)
  /\ TimeZoneCountMismatch(args)
  /\ exit_status' = "EXIT_FAILURE"
  /\ cerr' = cerr \o <<"you must specify the same number of time zones as image arguments">>
  /\ pc' = "exit"
  /\ UNCHANGED <<argv, args, cout, cin, cin_read, tz_current, time_zones,
                 tia_nii, image_file_writer, administration_times, acquisition_times,
                 hours_since_administration, spects, input_filenames,
                 time_points, decay_factors>>
  /\ LibraryUnchanged

MainReadSpects ==
  /\ pc = "parsed"
  /\ ~TooFewImages(args)
  /\ ~TimeZoneCountMismatch(args)
  /\ \E in \in StdinInputs :
       /\ cin' = in
       /\ spects' = ReadSpects(in)
  /\ cin_read' = TRUE
  /\ pc' = "read"
  /\ UNCHANGED <<argv, args, exit_status, cout, cerr, tz_current, time_zones,
                 tia_nii, image_file_writer, administration_times, acquisition_times,
                 hours_since_administration, input_filenames, time_points,
                 decay_factors>>
  /\ LibraryUnchanged

MainSpectsMismatch ==
  /\ pc = "read"
  /\ Len(spects) # Len(args.input_filenames)
  /\ exit_status' = "EXIT_FAILURE"
  /\ cerr' = cerr \o <<"number of image arguments does not match input on stdin">>
  /\ pc' = "exit"
  /\ UNCHANGED <<argv, args, cout, cin, cin_read, tz_current, time_zones,
                 tia_nii, image_file_writer, administration_times, acquisition_times,
                 hours_since_administration, spects, input_filenames,
                 time_points, decay_factors>>
  /\ LibraryUnchanged

MainAssignTimeZones ==
  /\ pc = "read"
  /\ Len(spects) = Len(args.input_filenames)
  /\ \E current \in Zones :
       /\ tz_current' = current
       /\ \E zones \in {AssignTimeZones(args.tz_names,
                                         Len(args.input_filenames), current)} :
            /\ zones.has_value
            /\ time_zones' = zones.value
  /\ pc' = "zones"
  /\ UNCHANGED <<argv, args, exit_status, cout, cerr, cin, cin_read, tia_nii, image_file_writer,
                 administration_times, acquisition_times,
                 hours_since_administration, spects, input_filenames,
                 time_points, decay_factors>>
  /\ LibraryUnchanged

\* locate_zone throws.
MainLocateZoneFailed ==
  /\ pc = "read"
  /\ Len(spects) = Len(args.input_filenames)
  /\ \E current \in Zones :
       /\ tz_current' = current
       /\ ~AssignTimeZones(args.tz_names, Len(args.input_filenames),
                           current).has_value
  /\ exit_status' = "EXIT_FAILURE"
  /\ cerr' = cerr \o <<"cannot locate zone">>
  /\ pc' = "exit"
  /\ UNCHANGED <<argv, args, cout, cin, cin_read, time_zones, tia_nii, image_file_writer,
                 administration_times, acquisition_times,
                 hours_since_administration, spects, input_filenames,
                 time_points, decay_factors>>
  /\ LibraryUnchanged

MainOutputExists ==
  /\ pc = "zones"
  /\ ~args.overwrite
  /\ tia_nii # "absent"
  /\ exit_status' = "EXIT_FAILURE"
  /\ cerr' = cerr \o <<"file already exists">>
  /\ pc' = "exit"
  /\ UNCHANGED <<argv, args, cout, cin, cin_read, tz_current, time_zones,
                 tia_nii, image_file_writer, administration_times, acquisition_times,
                 hours_since_administration, spects, input_filenames,
                 time_points, decay_factors>>
  /\ LibraryUnchanged

\* The loop over the records: all of it, or up to the record without
\* administration time, acquisition time or decay factor.
MainProcessRecords ==
  /\ pc = "zones"
  /\ args.overwrite \/ tia_nii = "absent"
  /\ \E rs \in {ProcessRecords(spects, time_zones)} :
       IF FirstFailure(rs) = 0
         THEN /\ administration_times' =
                   [i \in 1..Len(rs) |-> rs[i].administration_time]
              /\ acquisition_times' =
                   [i \in 1..Len(rs) |-> rs[i].acquisition_time]
              /\ decay_factors' = [i \in 1..Len(rs) |-> rs[i].decay_factor]
              /\ cerr' = cerr \o ZoneWarnings(spects, time_zones, Len(spects))
              /\ pc' = "processed"
              /\ UNCHANGED exit_status
         ELSE /\ cerr' = cerr
                     \o ZoneWarnings(spects, time_zones, FirstFailure(rs))
                     \o <<<<"SPECT", FirstFailure(rs),
                            rs[FirstFailure(rs)].error>>>>
              /\ exit_status' = "EXIT_FAILURE"
              /\ pc' = "exit"
              /\ UNCHANGED <<administration_times, acquisition_times,
                             decay_factors>>
  /\ UNCHANGED <<argv, args, cout, cin, cin_read, tz_current, time_zones,
                 tia_nii, image_file_writer, hours_since_administration, spects, input_filenames,
                 time_points>>
  /\ LibraryUnchanged

\* The delays are computed, PrepareTiaPipeline is called with them, the
\* image arguments and the decay factors, and the writer runs the pipeline.
MainWriteTia ==
  /\ pc = "processed"
  /\ hours_since_administration' =
       [i \in 1..Len(acquisition_times) |->
          HoursSinceAdministration(acquisition_times[i],
                                   administration_times[1])]
  /\ time_points' = hours_since_administration'
  /\ input_filenames' = args.input_filenames
  /\ image_file_writer' = "updated"
  /\ tia_nii' = "written"
  /\ exit_status' = "EXIT_SUCCESS"
  /\ cerr' = cerr \o AdministrationWarning(administration_times)
  /\ pc' = "exit"
  /\ UNCHANGED <<argv, args, cout, cin, cin_read, tz_current, time_zones,
                 administration_times, acquisition_times, spects,
                 decay_factors>>
  /\ LibraryUnchanged

\* The same where the writer throws itk::ExceptionObject: before it opened
\* tia.nii, or with the file partly written.
MainWriteTiaFailed ==
  /\ pc = "processed"
  /\ hours_since_administration' =
       [i \in 1..Len(acquisition_times) |->
          HoursSinceAdministration(acquisition_times[i],
                                   administration_times[1])]
  /\ time_points' = hours_since_administration'
  /\ input_filenames' = args.input_filenames
  /\ image_file_writer' = "threw"
  /\ tia_nii' \in {tia_nii, "partial"}
  /\ exit_status' = "EXIT_FAILURE"
  /\ cerr' = cerr \o AdministrationWarning(administration_times)
                  \o <<"itk::ExceptionObject">>
  /\ pc' = "exit"
  /\ UNCHANGED <<argv, args, cout, cin, cin_read, tz_current, time_zones,
                 administration_times, acquisition_times, spects,
                 decay_factors>>
  /\ LibraryUnchanged

NextMain ==
  \/ MainUsage
  \/ MainParseArguments
  \/ MainParseArgumentsExit
  \/ MainTooFewImages
  \/ MainTimeZoneCount
  \/ MainReadSpects
  \/ MainSpectsMismatch
  \/ MainAssignTimeZones
  \/ MainLocateZoneFailed
  \/ MainOutputExists
  \/ MainProcessRecords
  \/ MainWriteTia
  \/ MainWriteTiaFailed

SpecMain == InitMain /\ [][NextMain]_vars

(***************************************************************************)
(* Properties of main                                                      *)
(***************************************************************************)
\* The number of image arguments and of -z options on the command line,
\* and whether it has neither -V nor an invalid option.
ImageCount == Len(argv) + 1 - GetoptsOf(argv).operands
ZoneOptions ==
  OptionArguments(GetoptsOf(argv).options, Len(GetoptsOf(argv).options))
OptionsAccepted == FirstStop(GetoptsOf(argv).options) = "none"

\* C17: the time points main hands to PrepareTiaPipeline are, for every
\* record i, the elapsed time acquisition_times[i] minus the administration
\* time, in seconds.
C17_TimePointsInSeconds ==
  (fn = "main" /\ pc = "exit" /\ time_points # <<>>) =>
    /\ Len(time_points) = Len(acquisition_times)
    /\ \A i \in 1..Len(time_points) :
         time_points[i] =
           FromInt(acquisition_times[i] - administration_times[1])

\* C18 as stated: every invocation with fewer than two image arguments, no
\* -V and no invalid option exits with a non-zero status and a message
\* mentioning "at least 2", without reading standard input and without
\* creating tia.nii.
C18_TooFewImages ==
  (fn = "main" /\ pc = "exit" /\ OptionsAccepted /\ ImageCount < 2) =>
    /\ exit_status = "EXIT_FAILURE"
    /\ \E k \in 1..Len(cerr) :
         cerr[k] = "you must specify at least 2 image arguments"
    /\ ~cin_read
    /\ tia_nii # "written"

\* C18 amended: every such invocation exits with a non-zero status without
\* reading standard input and without creating tia.nii; the message is the
\* one mentioning "at least 2" when there is at least one argument after
\* the program name, and the usage alone when there is none.
C18_TooFewImagesAmended ==
  (fn = "main" /\ OptionsAccepted /\ ImageCount < 2) =>
    /\ ~cin_read
    /\ tia_nii # "written"
    /\ pc \in {"main", "parsed", "exit"}
    /\ pc = "exit" =>
         /\ exit_status = "EXIT_FAILURE"
         /\ cerr = IF Len(argv) = 1
                     THEN <<"usage">>
                     ELSE <<"you must specify at least 2 image arguments">>

\* "-f img1": one image.
C18_Witness ==
  /\ fn = "main"
  /\ pc = "exit"
  /\ argv = <<ProgramName, <<"-", "f">>, Image(1)>>
  /\ exit_status = "EXIT_FAILURE"
  /\ cerr = <<"you must specify at least 2 image arguments">>
  /\ ~cin_read

\* The zones of the records once they are assigned: with no -z the current
\* zone for all, with one -z that zone for all, with as many -z as images
\* the i-th zone for record i; exactly as many zones as images.
ZonesAssigned ==
  (fn = "main" /\ time_zones # <<>>) =>
    /\ Len(time_zones) = ImageCount
    /\ Len(ZoneOptions) = 0 =>
         \A i \in 1..ImageCount : time_zones[i] = tz_current
    /\ Len(ZoneOptions) = 1 =>
         \A i \in 1..ImageCount :
           ZoneName(time_zones[i]) = ZoneOptions[1]
    /\ Len(ZoneOptions) > 1 =>
         /\ Len(ZoneOptions) = ImageCount
         /\ \A i \in 1..ImageCount :
              ZoneName(time_zones[i]) = ZoneOptions[i]

\* Record processing does not start without the zones.
ZonesBeforeRecords ==
  (fn = "main"
     /\ (pc \in {"zones", "processed"} \/ acquisition_times # <<>>
           \/ time_points # <<>>)) =>
    /\ ImageCount >= 2
    /\ Len(time_zones) = ImageCount

ForceOption ==
  \E k \in 1..Len(GetoptsOf(argv).options) :
    GetoptsOf(argv).options[k].name = "f"

\* Whether the three results of record i have a value.
RecordResolved(i) ==
  /\ MakeRadiopharmaceuticalStartSysTime(spects[i], time_zones[i]).has_value
  /\ MakeAcquisitionSysTime(spects[i], time_zones[i]).has_value
  /\ ComputeDecayFactor(spects[i], time_zones[i]).has_value

\* What has to have succeeded before the writer runs, read from the command
\* line, standard input and the file system.
WriterGates ==
  /\ OptionsAccepted
  /\ ImageCount >= 2
  /\ cin_read
  /\ Len(ReadSpects(cin)) = ImageCount
  /\ \A k \in 1..Len(ZoneOptions) : LocateZone(ZoneOptions[k]).has_value
  /\ tia_nii = "absent" \/ ForceOption
  /\ Len(spects) = ImageCount
  /\ Len(time_zones) = ImageCount
  /\ \A i \in 1..Len(spects) : RecordResolved(i)

\* C21: in main a step runs the image writer, or changes tia.nii, only when
\* the writer has not run before and there are at least 2 image arguments,
\* as many records as images, every zone name located, tia.nii absent or -f
\* given, and administration time, acquisition time and decay factor of
\* every record resolved; so a run that fails at one of these never runs the
\* writer and leaves tia.nii as it was.
C21_WriterGating ==
  [][(fn = "main"
        /\ (image_file_writer' # image_file_writer \/ tia_nii' # tia_nii)) =>
       /\ image_file_writer = "none"
       /\ image_file_writer' # "none"
       /\ WriterGates]_vars

\* With -f, tia.nii is overwritten for three records.
C21_Witness ==
  /\ fn = "main"
  /\ image_file_writer = "updated"
  /\ tia_nii = "written"
  /\ args.overwrite
  /\ Len(spects) = 3
  /\ exit_status = "EXIT_SUCCESS"

\* Whether two records have different administration times.
AdministrationTimesDiffer ==
  \E i, j \in 1..Len(administration_times) :
    administration_times[i] # administration_times[j]

\* C22: when every record resolved and two of them have different
\* administration times, main does not return before the writer: it warns
\* once and the delay of every record i is acquisition_times[i] minus the
\* administration time of the first record (as hours).
C22_AdministrationTimesDiffer ==
  (fn = "main" /\ AdministrationTimesDiffer) =>
    /\ pc \in {"processed", "exit"}
    /\ pc = "exit" =>
         /\ image_file_writer # "none"
         /\ image_file_writer = "updated" => exit_status = "EXIT_SUCCESS"
         /\ Cardinality({k \in 1..Len(cerr) :
              cerr[k] = "administration date time differs for two or more SPECTs"})
              = 1
         /\ Len(hours_since_administration) = Len(acquisition_times)
         /\ \A i \in 1..Len(acquisition_times) :
              hours_since_administration[i] =
                Quotient(acquisition_times[i] - administration_times[1],
                         3600)
         /\ time_points = hours_since_administration

\* Two records, the second administered 9 h 30 min after the first.
C22_Witness ==
  /\ fn = "main"
  /\ pc = "exit"
  /\ Len(administration_times) = 2
  /\ administration_times[2] - administration_times[1] = 570 * 60
  /\ image_file_writer = "updated"
  /\ hours_since_administration[2] # hours_since_administration[1]

\* The first record without one of its three results, and the text of the
\* first of the three errors of record i in the order administration time,
\* acquisition time, decay factor.
FirstUnresolved ==
  CHOOSE i \in 1..Len(spects) :
    ~RecordResolved(i) /\ \A k \in 1..(i - 1) : RecordResolved(k)

FirstErrorText(i) ==
  IF ~MakeRadiopharmaceuticalStartSysTime(spects[i], time_zones[i]).has_value
    THEN ToStringTimePointErrorWithId(
           MakeRadiopharmaceuticalStartSysTime(spects[i], time_zones[i]).error)
  ELSE IF ~MakeAcquisitionSysTime(spects[i], time_zones[i]).has_value
    THEN ToStringTimePointErrorWithId(
           MakeAcquisitionSysTime(spects[i], time_zones[i]).error)
  ELSE ToStringVariant(ComputeDecayFactor(spects[i], time_zones[i]).error)

\* main has ended after it entered the loop over the records.
EndedAfterZones ==
  /\ fn = "main"
  /\ pc = "exit"
  /\ time_zones # <<>>
  /\ Len(time_zones) = Len(spects)
  /\ args.overwrite \/ tia_nii = "absent"

\* C26: when a record lacks one of its three results, main ends with a
\* failure status and without running the writer, and the last line of the
\* diagnostics names the 1-based index of the first such record and the
\* ToString of the first error of that record in the order administration
\* time, acquisition time, decay factor; it is the only such line, and no
\* line concerns a later record.
C26_FailFast ==
  (EndedAfterZones /\ \E i \in 1..Len(spects) : ~RecordResolved(i)) =>
    /\ exit_status = "EXIT_FAILURE"
    /\ image_file_writer = "none"
    /\ Len(cerr) >= 1
    /\ cerr[Len(cerr)] =
         <<"SPECT", FirstUnresolved, FirstErrorText(FirstUnresolved)>>
    /\ \A k \in 1..(Len(cerr) - 1) :
         /\ cerr[k][1] = "assuming time zone"
         /\ cerr[k][2] <= FirstUnresolved

\* The first record has a start date time with a bad UTC offset suffix, an
\* incomplete acquisition time and an invalid decay correction, and the
\* second record is fine: the line names record 1 and the start date time.
C26_Witness ==
  /\ EndedAfterZones
  /\ Len(spects) = 2
  /\ ~MakeAcquisitionSysTime(spects[1], time_zones[1]).has_value
  /\ ~ComputeDecayFactor(spects[1], time_zones[1]).has_value
  /\ RecordResolved(2)
  /\ cerr = <<<<"SPECT", 1,
                <<"failed to make time point for ",
                  "radiopharmaceutical start date time", ": ",
                  "failed to parse UTC offset suffix of DICOM Date Time">>>>>>

(***************************************************************************)
(* spider_dicom_dump (src/apps/spider_dicom_dump.cc) and ReadDicomSpect.   *)
(* A data set is a function from the attributes it has to their values;    *)
(* the RadiopharmaceuticalInformationSequence is a sequence of data sets.  *)
(* cerr holds the diagnostics of the program; the lines of spider::Log()   *)
(* and of Warning() are left out.                                          *)
(***************************************************************************)
\* GetPatientName and the other getters of a string attribute of the data
\* set.
GetAttribute(ds, tag, missing) ==
  IF tag \notin DOMAIN ds THEN missing ELSE ds[tag]

\* GetRadiopharmaceuticalStartDateTime and GetRadionuclideHalfLife: the
\* attribute of the first item of the sequence.
GetSequenceAttribute(ds, tag, missing) ==
  IF "RadiopharmaceuticalInformationSequence" \notin DOMAIN ds THEN missing
  ELSE IF Len(ds["RadiopharmaceuticalInformationSequence"]) = 0 THEN missing
  ELSE GetAttribute(ds["RadiopharmaceuticalInformationSequence"][1], tag,
                    missing)

ReadDicomSpect(ds) ==
  [patient_name |-> GetAttribute(ds, "PatientName", NoString),
   radiopharmaceutical_start_date_time |->
     GetSequenceAttribute(ds, "RadiopharmaceuticalStartDateTime", NoString),
   acquisition_date |-> GetAttribute(ds, "AcquisitionDate", NoString),
   acquisition_time |-> GetAttribute(ds, "AcquisitionTime", NoString),
   series_date |-> GetAttribute(ds, "SeriesDate", NoString),
   series_time |-> GetAttribute(ds, "SeriesTime", NoString),
   frame_reference_time |->
     GetAttribute(ds, "FrameReferenceTime", NulloptDouble),
   timezone_offset_from_utc |->
     GetAttribute(ds, "TimezoneOffsetFromUTC", NoString),
   decay_correction |-> GetAttribute(ds, "DecayCorrection", NoString),
   radionuclide_half_life |->
     GetSequenceAttribute(ds, "RadionuclideHalfLife", NulloptDouble)]

\* A variant of the loop that goes on to the last such entry.
RECURSIVE ScanEntriesLast(_, _)
ScanEntriesLast(entries, k) ==
  IF k > Len(entries) THEN 0
  ELSE IF ScanEntriesLast(entries, k + 1) # 0
    THEN ScanEntriesLast(entries, k + 1)
  ELSE IF entries[k].is_regular_file /\ entries[k].opens /\ entries[k].read
    THEN k
  ELSE 0

\* The loop of ReadDicomFileInDir from entry k on: the index of the first
\* entry that is a regular file, opens as a stream and is read by the
\* gdcm::Reader, or 0.
RECURSIVE ScanEntries(_, _)
ScanEntries(entries, k) ==
  IF k > Len(entries) THEN 0
  ELSE IF ~entries[k].is_regular_file THEN ScanEntries(entries, k + 1)
  ELSE IF ~entries[k].opens THEN ScanEntries(entries, k + 1)
  ELSE IF entries[k].read THEN k
  ELSE ScanEntries(entries, k + 1)

\* ReadDicomFileInDir on a directory of the file system: exit where it
\* calls std::exit, else what it returns and the data set of the reader.
ReadDicomFileInDir(dir) ==
  IF dir.ec THEN [exit |-> TRUE, found |-> FALSE, ds |-> <<>>]
  ELSE IF ScanEntries(dir.entries, 1) = 0
    THEN [exit |-> FALSE, found |-> FALSE, ds |-> <<>>]
  ELSE [exit |-> FALSE, found |-> TRUE,
        ds |-> dir.entries[ScanEntries(dir.entries, 1)].ds]

(***************************************************************************)
(* The inputs of spider_dicom_dump                                         *)
(***************************************************************************)
MaxDirectories == 3

DataSetSamples ==
  <<[PatientName |-> <<"D", "O", "E", "^", "J", "O", "H", "N">>,
     RadiopharmaceuticalInformationSequence |->
       <<[RadiopharmaceuticalStartDateTime |->
            <<"2", "0", "2", "5", "0", "1", "0", "2", "0", "0", "0", "0",
              "0", "0">>,
          RadionuclideHalfLife |-> Double(FALSE, 5743, 2)]>>,
     AcquisitionDate |-> Jan2,
     AcquisitionTime |-> SixOClock,
     SeriesDate |-> Jan2,
     SeriesTime |-> HalfPastSeven,
     FrameReferenceTime |-> Double(FALSE, 86219, 0),
     TimezoneOffsetFromUTC |-> <<"+", "0", "9", "3", "0">>,
     DecayCorrection |-> StartCorrection],
    [PatientName |-> <<"D", "O", "E", "^", "J", "A", "N", "E">>,
     RadiopharmaceuticalInformationSequence |-> <<>>,
     AcquisitionDate |-> Jan3,
     AcquisitionTime |-> HalfPastSeven,
     DecayCorrection |-> <<"N", "O", "N", "E">>],
    [AcquisitionDate |-> Jan3,
     SeriesDate |-> Jan3,
     RadiopharmaceuticalInformationSequence |->
       <<[RadionuclideHalfLife |-> Double(FALSE, 2311, 0 - 2)]>>]>>

\* Directory entries: a DICOM file, a file the reader rejects, a file that
\* cannot be opened, a subdirectory.
DicomFile(k) ==
  [is_regular_file |-> TRUE, opens |-> TRUE, read |-> TRUE,
   ds |-> DataSetSamples[k]]
OtherFile ==
  [is_regular_file |-> TRUE, opens |-> TRUE, read |-> FALSE, ds |-> <<>>]
UnreadableFile(k) ==
  [is_regular_file |-> TRUE, opens |-> FALSE, read |-> TRUE,
   ds |-> DataSetSamples[k]]
Subdirectory ==
  [is_regular_file |-> FALSE, opens |-> FALSE, read |-> FALSE, ds |-> <<>>]

\* The directories named on the command line: whether directory_iterator
\* sets the error code, and the entries in the order of the iteration.
FileSystem(name) ==
  CASE name = "scan1" ->
         [ec |-> FALSE,
          entries |-> <<Subdirectory, OtherFile, DicomFile(1), DicomFile(2)>>]
    [] name = "scan2" ->
         [ec |-> FALSE, entries |-> <<UnreadableFile(1), DicomFile(2)>>]
    [] name = "scan3" -> [ec |-> FALSE, entries |-> <<DicomFile(3)>>]
    [] name = "empty" -> [ec |-> FALSE, entries |-> <<>>]
    [] name = "notes" ->
         [ec |-> FALSE,
          entries |-> <<OtherFile, Subdirectory, UnreadableFile(3)>>]
    [] name = "missing" -> [ec |-> TRUE, entries |-> <<>>]

DirectoryNames == {"scan1", "scan2", "scan3", "empty", "notes", "missing"}

DumpArgvInputs ==
  {<<"spider_dicom_dump">> \o dirs :
     dirs \in UNION {[1..n -> DirectoryNames] : n \in 0..MaxDirectories}}

(***************************************************************************)
(* main of spider_dicom_dump as operations: one per pass of the loop over  *)
(* the directory arguments and one per place where the program ends.       *)
(***************************************************************************)
InitDump ==
  /\ pc = "main"
  /\ fn = "spider_dicom_dump"
  /\ argv \in DumpArgvInputs
  /\ spects = <<>>
  /\ os = NoString
  /\ warnings = <<>>
  /\ spects_read = <<>>
  /\ args = <<>>
  /\ exit_status = "none"
  /\ cout = <<>>
  /\ cerr = <<>>
  /\ cin = <<>>
  /\ cin_read = FALSE
  /\ tz_current = "nullptr"
  /\ time_zones = <<>>
  /\ tia_nii = "absent"
  /\ image_file_writer = "none"
  /\ administration_times = <<>>
  /\ acquisition_times = <<>>
  /\ hours_since_administration = <<>>
  /\ offset = 0
  /\ ParseUnused
  /\ ResolveUnused
  /\ SpectUnused
  /\ TiaUnused

DumpUnchanged ==
  UNCHANGED <<fn, offset, parseVars, resolveVars, spects_read, os, spectVars,
              tiaVars, argv, args, cin, cin_read, tz_current, time_zones,
              tia_nii, image_file_writer, administration_times,
              acquisition_times, hours_since_administration>>

\* argc < 2.
DumpUsage ==
  /\ pc = "main"
  /\ fn = "spider_dicom_dump"
  /\ Len(argv) < 2
  /\ cerr' = cerr \o <<"usage">>
  /\ exit_status' = "EXIT_FAILURE"
  /\ pc' = "exit"
  /\ UNCHANGED <<spects, cout, warnings>>
  /\ DumpUnchanged

\* One pass of the loop, for argv[i] with i = spects.size() + 1: a record
\* is added, or the program ends in ReadDicomFileInDir or after it.
DumpReadDirectory ==
  /\ pc = "main"
  /\ fn = "spider_dicom_dump"
  /\ Len(argv) >= 2
  /\ Len(spects) + 1 < Len(argv)
  /\ \E r \in {ReadDicomFileInDir(FileSystem(argv[Len(spects) + 2]))} :
       IF r.exit
         THEN /\ cerr' = cerr \o <<<<"Cannot open directory",
                                     argv[Len(spects) + 2]>>>>
              /\ exit_status' = "EXIT_FAILURE"
              /\ pc' = "exit"
              /\ UNCHANGED spects
       ELSE IF ~r.found
         THEN /\ cerr' = cerr \o <<<<"Failed to read a DICOM file in directory",
                                     argv[Len(spects) + 2]>>>>
              /\ exit_status' = "EXIT_FAILURE"
              /\ pc' = "exit"
              /\ UNCHANGED spects
       ELSE /\ spects' = Append(spects, ReadDicomSpect(r.ds))
            /\ UNCHANGED <<cerr, exit_status, pc>>
  /\ UNCHANGED <<cout, warnings>>
  /\ DumpUnchanged

\* After the loop: WriteSpects(spects, std::cout).
DumpWriteSpects ==
  /\ pc = "main"
  /\ fn = "spider_dicom_dump"
  /\ Len(argv) >= 2
  /\ Len(spects) + 1 = Len(argv)
  /\ cout' = cout \o WriteSpects(spects).os
  /\ warnings' = WriteSpects(spects).warnings
  /\ exit_status' = "EXIT_SUCCESS"
  /\ pc' = "exit"
  /\ UNCHANGED <<spects, cerr>>
  /\ DumpUnchanged

NextDump == DumpUsage \/ DumpReadDirectory \/ DumpWriteSpects

SpecDump == InitDump /\ [][NextDump]_vars

(***************************************************************************)
(* Properties of spider_dicom_dump                                         *)
(***************************************************************************)
\* Whether entry k of a directory is a regular file that opens and that
\* the reader accepts.
IsDicomEntry(dir, k) ==
  /\ dir.entries[k].is_regular_file
  /\ dir.entries[k].opens
  /\ dir.entries[k].read

\* Whether a directory opens and holds such a file.
YieldsRecord(name) ==
  /\ ~FileSystem(name).ec
  /\ \E k \in 1..Len(FileSystem(name).entries) :
       IsDicomEntry(FileSystem(name), k)

\* The record of the first such file.
FirstRecord(name) ==
  ReadDicomSpect(
    FileSystem(name).entries[
      CHOOSE k \in 1..Len(FileSystem(name).entries) :
        /\ IsDicomEntry(FileSystem(name), k)
        /\ \A h \in 1..(k - 1) : ~IsDicomEntry(FileSystem(name), h)].ds)

\* C25: spider_dicom_dump writes to standard output only once every
\* directory argument has yielded a record, and then the serialization of
\* one record per directory argument, in the order of the command line,
\* each from the first regular file of the directory that opens and that
\* the reader accepts; with a directory that cannot be opened or without
\* such a file it ends with a failure status and nothing on standard
\* output.
C25_DumpAllOrNothing ==
  (fn = "spider_dicom_dump") =>
    /\ cout # <<>> =>
         /\ pc = "exit"
         /\ exit_status = "EXIT_SUCCESS"
         /\ \A i \in 2..Len(argv) : YieldsRecord(argv[i])
         /\ cout = WriteSpects([i \in 1..(Len(argv) - 1) |->
                                  FirstRecord(argv[i + 1])]).os
    /\ \A i \in 1..Len(spects) :
         YieldsRecord(argv[i + 1]) /\ spects[i] = FirstRecord(argv[i + 1])
    /\ (pc = "exit" /\ \E i \in 2..Len(argv) : ~YieldsRecord(argv[i])) =>
         /\ exit_status = "EXIT_FAILURE"
         /\ cout = <<>>
    /\ (pc = "exit" /\ Len(argv) >= 2
          /\ \A i \in 2..Len(argv) : YieldsRecord(argv[i])) =>
         /\ exit_status = "EXIT_SUCCESS"
         /\ cout # <<>>

\* Three directories were dumped in the order given, the second after an
\* entry that could not be opened, the third after a subdirectory and a
\* file that is not DICOM.
C25_Witness ==
  /\ fn = "spider_dicom_dump"
  /\ pc = "exit"
  /\ argv = <<"spider_dicom_dump", "scan3", "scan2", "scan1">>
  /\ exit_status = "EXIT_SUCCESS"
  /\ Len(GetLines(cout, 1)) = 2 + 11 * 3
  /\ spects[3].patient_name = <<"D", "O", "E", "^", "J", "O", "H", "N">>

(***************************************************************************)
(* The diagnostic rendering of a Spect (operator<< of src/src/spect.cc)    *)
(***************************************************************************)
\* std::quoted on output: the string between double quotes, each double
\* quote and each backslash of it preceded by a backslash.
RECURSIVE Escaped(_)
Escaped(s) ==
  IF s = <<>> THEN <<>>
  ELSE (IF Head(s) \in {"\"", "\\"} THEN <<"\\", Head(s)>> ELSE <<Head(s)>>)
         \o Escaped(Tail(s))

Quoted(s) == <<"\"">> \o Escaped(s) \o <<"\"">>

\* The literals operator<< writes before the fields.
LabelPatientName ==
  <<"p", "a", "t", "i", "e", "n", "t", "_", "n", "a", "m", "e", "=">>

LabelRadiopharmaceuticalStartDateTime ==
  <<"r", "a", "d", "i", "o", "p", "h", "a", "r", "m", "a", "c", "e", "u",
    "t", "i", "c", "a", "l", "_", "s", "t", "a", "r", "t", "_", "d", "a",
    "t", "e", "_", "t", "i", "m", "e", "=">>

LabelAcquisitionDate ==
  <<"a", "c", "q", "u", "i", "s", "i", "t", "i", "o", "n", "_", "d", "a",
    "t", "e", "=">>

LabelAcquisitionTime ==
  <<"a", "c", "q", "u", "i", "s", "i", "t", "i", "o", "n", "_", "t", "i",
    "m", "e", "=">>

LabelSeriesDate ==
  <<"s", "e", "r", "i", "e", "s", "_", "d", "a", "t", "e", "=">>

LabelSeriesTime ==
  <<"s", "e", "r", "i", "e", "s", "_", "t", "i", "m", "e", "=">>

LabelFrameReferenceTime ==
  <<"f", "r", "a", "m", "e", "_", "r", "e", "f", "e", "r", "e", "n", "c",
    "e", "_", "t", "i", "m", "e", "=">>

LabelTimezoneOffsetFromUtc ==
  <<"t", "i", "m", "e", "z", "o", "n", "e", "_", "o", "f", "f", "s", "e",
    "t", "_", "f", "r", "o", "m", "_", "u", "t", "c", "=">>

LabelDecayCorrection ==
  <<"d", "e", "c", "a", "y", "_", "c", "o", "r", "r", "e", "c", "t", "i",
    "o", "n", "=">>

LabelRadionuclideHalfLife ==
  <<"r", "a", "d", "i", "o", "n", "u", "c", "l", "i", "d", "e", "_", "h",
    "a", "l", "f", "_", "l", "i", "f", "e", "=">>

OpenSpect ==
  <<"S", "p", "e", "c", "t", "{">>

Comma ==
  <<",", " ">>

UnitMs ==
  <<" ", "m", "s">>

UnitSClose ==
  <<" ", "s", "}">>

\* os << s.frame_reference_time.value() and os << s.radionuclide_half_life
\* .value(), written only when the optional holds a value.
OutputOptionalDouble(x) == IF x.has THEN OutputDouble(x.val) ELSE <<>>

\* operator<<(std::ostream&, const Spect&): what it puts on the stream.
\* The values after the labels series_date and series_time are
\* s.acquisition_date and s.acquisition_time.
InsertSpect(s) ==
  OpenSpect
    \o LabelPatientName \o Quoted(s.patient_name)
    \o Comma \o LabelRadiopharmaceuticalStartDateTime
    \o Quoted(s.radiopharmaceutical_start_date_time)
    \o Comma \o LabelAcquisitionDate \o Quoted(s.acquisition_date)
    \o Comma \o LabelAcquisitionTime \o Quoted(s.acquisition_time)
    \o Comma \o LabelSeriesDate \o Quoted(s.acquisition_date)
    \o Comma \o LabelSeriesTime \o Quoted(s.acquisition_time)
    \o Comma \o LabelFrameReferenceTime
    \o OutputOptionalDouble(s.frame_reference_time) \o UnitMs
    \o Comma \o LabelTimezoneOffsetFromUtc
    \o Quoted(s.timezone_offset_from_utc)
    \o Comma \o LabelDecayCorrection \o Quoted(s.decay_correction)
    \o Comma \o LabelRadionuclideHalfLife
    \o OutputOptionalDouble(s.radionuclide_half_life) \o UnitSClose

\* The records written: names with and without characters that std::quoted
\* escapes, series fields equal to and different from the acquisition
\* fields, numeric fields present and absent.
PrintNames == {<<"D", "O", "E", "^", "J">>, <<"a", "\"", "b", "\\">>}
PrintStarts ==
  {<<"2", "0", "2", "5", "0", "1", "0", "2", "0", "0", "0", "0", "0", "0">>}
PrintDates ==
  {<<"2", "0", "2", "5", "0", "1", "0", "2">>,
   <<"2", "0", "2", "5", "0", "1", "0", "1">>}
PrintTimes ==
  {<<"0", "6", "0", "0", "0", "0">>, <<"0", "5", "5", "5", "0", "0">>, <<>>}
PrintOffsets == {<<>>, <<"+", "0", "9", "3", "0">>}
PrintCorrections == {<<"S", "T", "A", "R", "T">>}
PrintFrameTimes == {NulloptDouble, Double(FALSE, 1234565, 0)}
PrintHalfLives == {NulloptDouble, Double(FALSE, 5743008, 0 - 1)}

PrintSpects ==
  {MakeSpect(<<pn, st, ad, at, sd, stm, zo, dc>>, <<frt, hl>>) :
     pn \in PrintNames, st \in PrintStarts, ad \in PrintDates,
     at \in PrintTimes, sd \in PrintDates, stm \in PrintTimes,
     zo \in PrintOffsets, dc \in PrintCorrections,
     frt \in PrintFrameTimes, hl \in PrintHalfLives}

InitPrint ==
  /\ pc = "call"
  /\ fn = "operator<<"
  /\ s_spect \in PrintSpects
  /\ os = NoString
  /\ spects = <<>>
  /\ warnings = <<>>
  /\ spects_read = <<>>
  /\ offset = 0
  /\ ParseUnused
  /\ ResolveUnused
  /\ TiaUnused
  /\ AppUnused

\* os << s_spect on an empty stream.
CallInsertSpect ==
  /\ pc = "call"
  /\ fn = "operator<<"
  /\ os' = InsertSpect(s_spect)
  /\ pc' = "done"
  /\ UNCHANGED <<fn, offset, parseVars, resolveVars, spects, warnings,
                 spects_read, extVars>>

NextPrint == CallInsertSpect

SpecPrint == InitPrint /\ [][NextPrint]_vars

(***************************************************************************)
(* Properties of the rendering                                             *)
(***************************************************************************)
FieldLabels ==
  <<LabelPatientName, LabelRadiopharmaceuticalStartDateTime,
    LabelAcquisitionDate, LabelAcquisitionTime, LabelSeriesDate,
    LabelSeriesTime, LabelFrameReferenceTime, LabelTimezoneOffsetFromUtc,
    LabelDecayCorrection, LabelRadionuclideHalfLife>>

StartsWith(t, p) == Len(t) >= Len(p) /\ SubSeq(t, 1, Len(p)) = p

\* The text of t after the first occurrence of l in it; empty when t does
\* not hold l.
TextAfter(t, l) ==
  IF \E k \in 0..(Len(t) - Len(l)) : StartsWith(RemovePrefix(t, k), l)
    THEN RemovePrefix(t, Len(l) + CHOOSE k \in 0..(Len(t) - Len(l)) :
           /\ StartsWith(RemovePrefix(t, k), l)
           /\ \A j \in 0..(k - 1) : ~StartsWith(RemovePrefix(t, j), l))
    ELSE <<>>

\* The value of the field of the given name as the stream shows it: a
\* string between quotes; a number, if present, before its unit.
ShownValue(s, name) ==
  CASE name = "frame_reference_time" ->
         OutputOptionalDouble(s.frame_reference_time) \o UnitMs
    [] name = "radionuclide_half_life" ->
         OutputOptionalDouble(s.radionuclide_half_life) \o UnitSClose
    [] OTHER -> Quoted(s[name])

\* C30: in the text operator<< writes for a record, each label is followed
\* by the value of the field of the same name; the text after
\* "series_date=" is the record's series_date and the text after
\* "series_time=" its series_time, also when they differ from
\* acquisition_date and acquisition_time.
C30_LabelsAndValues ==
  (pc = "done" /\ fn = "operator<<") =>
    \A k \in 1..Len(FieldOrder) :
      StartsWith(TextAfter(os, FieldLabels[k]),
                 ShownValue(s_spect, FieldOrder[k]))

(***************************************************************************)
(* The library: any one of its functions called once.                      *)
(***************************************************************************)
Init ==
  InitParse \/ InitResolve \/ InitSerial \/ InitRead \/ InitSpect
    \/ InitTia \/ InitArguments \/ InitMain \/ InitDump \/ InitPrint

Next ==
  NextParse \/ NextResolve \/ NextSerial \/ NextRead \/ NextSpect
    \/ NextTia \/ NextArguments \/ NextMain \/ NextDump \/ NextPrint

Spec == Init /\ [][Next]_vars

====
